---- MODULE Spec2Model ----
(***************************************************************************)
(* A model of ccproxy: the per-session admission controller               *)
(* (session-manager), the request handlers' teardown paths, the upstream  *)
(* client with its 401 refresh, the Responses input translator, the       *)
(* request decorator, the stream rewriters, the relay of the upstream     *)
(* body, the local API key check, the derivation of session keys, the      *)
(* Chat-Completions message translator and the configuration watcher.     *)
(***************************************************************************)
EXTENDS Integers, Sequences, FiniteSets, TLC

VARIABLES
    now,             \* Date.now(), in milliseconds
    nticks,          \* how many times the clock was advanced
    activeRequests,  \* SessionManager.activeRequests: session key -> entry or None
    dedupeCache,     \* SessionManager.dedupeCache: content hash -> entry or None
    req,             \* one record per request slot: what startRequest answered, and when
    h,               \* one record per request slot: where its handler stands
    authFile,        \* the content of ~/.ccproxy/auth.json
    oauthGen,        \* how many token triples the OAuth endpoint has issued
    persisted,       \* the triples that have been completely written to auth.json
    live,            \* the upstream calls that run
    up,              \* one record per upstream call: where sendClaudeCodeRequest stands
    items,           \* the input item list of a Responses request
    translated,      \* what convertResponsesInputToAISDK returned for it
    reqBody,         \* a native-format request body, as the client sent it
    opts,            \* the ProcessRequestOptions of the decorator
    once,            \* processClaudeCodeRequestBody(reqBody)
    twice,           \* processClaudeCodeRequestBody(once)
    stripped,        \* removeToolPrefixFromResponse(once)
    rw,              \* one response stream: what its rewriter has enqueued, and its state
    relay,           \* one upstream body as it is read in chunks, and what was sent on
    keyFile,         \* the content of ~/.ccproxy/apikey.json
    currentApiKey,   \* config-watcher's cache of the key record
    apiKeyRequired,  \* the router's flag, set by the onApiKeyChange callback
    apiKeyTimer,     \* apiKeyDebounceRef.current: a reload of the key file is scheduled
    gate,            \* one request at the router's key check
    pair,            \* two request bodies and the endpoint they are posted to
    keys,            \* the session keys the handler derives for them
    watch            \* config.json, its observers, the debounce timer and the reloads

smVars == <<now, nticks, activeRequests, dedupeCache, req>>
upVars == <<authFile, oauthGen, persisted, live, up>>
\* Everything outside the session manager and the handlers.
trVars == <<items, translated>>
decVars == <<reqBody, opts, once, twice, stripped>>
keyVars == <<keyFile, currentApiKey, apiKeyRequired, apiKeyTimer, gate>>
skVars == <<pair, keys>>
xVars == <<upVars, trVars, decVars, rw, relay, keyVars, skVars, watch>>
\* Everything outside the upstream client and the credential store.
notUp == <<smVars, h, trVars, decVars, rw, relay, keyVars, skVars, watch>>
\* Everything outside the Responses input translator.
notTr == <<smVars, h, upVars, decVars, rw, relay, keyVars, skVars, watch>>
\* Everything outside the request decorator.
notDec == <<smVars, h, upVars, trVars, rw, relay, keyVars, skVars, watch>>
\* Everything outside the stream rewriters.
notRw == <<smVars, h, upVars, trVars, decVars, relay, keyVars, skVars, watch>>
\* Everything outside the relay of the upstream body.
notRelay == <<smVars, h, upVars, trVars, decVars, rw, keyVars, skVars, watch>>
\* Everything outside the router's key check and the key file.
notKey == <<smVars, h, upVars, trVars, decVars, rw, relay, skVars, watch>>
\* Everything outside the derivation of session keys.
notSk == <<smVars, h, upVars, trVars, decVars, rw, relay, keyVars, watch>>
\* Everything outside the configuration watcher.
notWatch == <<smVars, h, upVars, trVars, decVars, rw, relay, keyVars, skVars>>
vars == <<now, nticks, activeRequests, dedupeCache, req, h, authFile, oauthGen,
          persisted, live, up, items, translated, reqBody, opts, once, twice, stripped,
          rw, relay, keyFile, currentApiKey, apiKeyRequired, apiKeyTimer, gate, pair, keys,
          watch>>

None == "none"
\* No translation was made yet.
NoOutput == [absent |-> TRUE]
\* No Responses request is being translated.
TrIdle == items = <<>> /\ translated = NoOutput
\* No JSON value was computed yet.
NoJson == [absent |-> TRUE]
DEFAULT_OPTIONS ==
    [enablePromptCache |-> TRUE, forceAddPlaceholderTool |-> TRUE, cacheMessageCount |-> 3]
\* No request body is being decorated.
DecIdle ==
    /\ reqBody = NoJson
    /\ opts = DEFAULT_OPTIONS
    /\ once = NoJson
    /\ twice = NoJson
    /\ stripped = NoJson
\* A response stream that was not created yet.
IdleRw ==
    [kind |-> "chat", pc |-> "new", running |-> FALSE, out |-> <<>>,
     sequenceNumber |-> 0, hasTextContent |-> FALSE, toolCalls |-> 0,
     streamError |-> FALSE, parts |-> 0, errorParts |-> 0, failed |-> FALSE]
\* No response is being streamed.
RwIdle == rw = IdleRw
\* A file that does not exist.
NoFile == [absent |-> TRUE]
\* A file that was opened for writing (truncated) and holds no JSON yet.
EmptyFile == [empty |-> TRUE]
\* No upstream body is being relayed.
IdleRelay == [pc |-> "idle", text |-> <<>>, rest |-> <<>>, sent |-> <<>>]
RelayIdle == relay = IdleRelay
\* No request is at the key check.
IdleGate == [pc |-> "idle"]
\* No key file, and no request at the key check.
KeyIdle ==
    /\ keyFile = NoFile
    /\ currentApiKey = NoFile
    /\ apiKeyRequired = FALSE
    /\ apiKeyTimer = FALSE
    /\ gate = IdleGate
\* No session key is being derived.
SkIdle == pair = <<>> /\ keys = <<>>
\* The configuration watcher was not started.
IdleWatch == [pc |-> "idle"]
WatchIdle == watch = IdleWatch
\* An absent Map entry.
NoEntry == [absent |-> TRUE]
\* A request body: which list it carries (messages or input), the length of
\* that list, its first element, the rest of the body, and the explicit
\* session ids (0 when absent).
Body(shape, n, first, rest, session_id, metadata_session_id) ==
    [shape |-> shape, n |-> n, first |-> first, rest |-> rest,
     session_id |-> session_id, metadata_session_id |-> metadata_session_id]
NoBody == Body("messages", 0, "", "", 0, 0)

(***************************************************************************)
(* Bounds of the model.                                                    *)
(***************************************************************************)
MaxReq == 3
MaxTicks == 2
MaxHandlers == 2

(***************************************************************************)
(* Session manager (src/unnamed/part_008).                                 *)
(***************************************************************************)
dedupeWindowMs == 2000
requestTimeoutMs == 300000
dedupeRetainMs == 60000

\* The amounts by which the clock advances between two calls: inside the
\* dedupe window, past it, past the dedupe retention, past the request timeout.
TickSteps == {500, 3000, 60001, 300001}

Reqs == 1..MaxReq

\* A request body: the length of its message list, its first message and the
\* rest of its content.
Bodies == {Body("messages", 1, "m1", "x", 0, 0),
           Body("messages", 1, "m1", "y", 0, 0)}

\* computeHash: sha256 of the serialised body; distinct bodies get distinct hashes.
computeHash(body) == body

extractSessionId_BodyHash(body) == <<"req", computeHash(body)>>

extractSessionId_WithoutCount(body) ==
    IF body.session_id # 0 THEN <<"id", body.session_id>>
    ELSE IF body.metadata_session_id # 0 THEN <<"id", body.metadata_session_id>>
    ELSE <<"first", computeHash(body.first)>>

\* extractSessionId: the explicit session_id, else the one in metadata, else
\* msg_<N>_<hash> or input_<N>_<hash> of a non-empty list, else req_<hash>.
extractSessionId(body) ==
    IF body.session_id # 0 THEN <<"id", body.session_id>>
    ELSE IF body.metadata_session_id # 0 THEN <<"id", body.metadata_session_id>>
    ELSE IF body.n > 0
    THEN <<IF body.shape = "messages" THEN "msg" ELSE "input", body.n, computeHash(body.first)>>
    ELSE <<"req", computeHash(body)>>

SessionKeys == {extractSessionId(b) : b \in Bodies}
Hashes == {computeHash(b) : b \in Bodies}

isSessionBusy_NeverBusy(act, sid, t) == FALSE

\* isSessionBusy: its answer.
isSessionBusy(act, sid, t) ==
    /\ act[sid] # NoEntry
    /\ ~(t - act[sid].startTime > requestTimeoutMs)

\* isSessionBusy: the table it leaves (a timed-out entry is deleted).
expireOnBusyCheck(act, sid, t) ==
    IF act[sid] # NoEntry /\ t - act[sid].startTime > requestTimeoutMs
    THEN [act EXCEPT ![sid] = NoEntry]
    ELSE act

isDuplicateRequest(ded, body, t) ==
    LET e == ded[computeHash(body)] IN
    /\ e # NoEntry
    /\ t - e.timestamp < dedupeWindowMs
    /\ e.inProgress

\* startRequest: the answer and the two tables after the call.
startRequest(act, ded, sid, body, t) ==
    IF isSessionBusy(act, sid, t)
    THEN [accepted |-> FALSE, reason |-> "busy", active |-> act, dedupe |-> ded]
    ELSE IF isDuplicateRequest(ded, body, t)
    THEN [accepted |-> FALSE, reason |-> "Duplicate",
          active |-> expireOnBusyCheck(act, sid, t), dedupe |-> ded]
    ELSE [accepted |-> TRUE, reason |-> None,
          active |-> [expireOnBusyCheck(act, sid, t) EXCEPT ![sid] =
                         [startTime |-> t, contentHash |-> computeHash(body)]],
          dedupe |-> [ded EXCEPT ![computeHash(body)] =
                         [timestamp |-> t, inProgress |-> TRUE]]]

endRequest_KeepEntry(act, ded, sid) == [active |-> act, dedupe |-> ded]

\* endRequest: the two tables after the call.
endRequest(act, ded, sid) ==
    IF act[sid] = NoEntry
    THEN [active |-> act, dedupe |-> ded]
    ELSE [active |-> [act EXCEPT ![sid] = NoEntry],
          dedupe |-> IF ded[act[sid].contentHash] # NoEntry
                     THEN [ded EXCEPT ![act[sid].contentHash].inProgress = FALSE]
                     ELSE ded]

\* cleanup: the two tables after the periodic sweep.
cleanup(act, ded, t) ==
    [active |-> [s \in DOMAIN act |->
                    IF act[s] # NoEntry /\ t - act[s].startTime > requestTimeoutMs
                    THEN NoEntry ELSE act[s]],
     dedupe |-> [k \in DOMAIN ded |->
                    IF ded[k] # NoEntry /\ t - ded[k].timestamp > dedupeRetainMs
                    THEN NoEntry ELSE ded[k]]]

IdleReq == [st |-> "idle", body |-> NoBody, reason |-> None, start |-> 0, late |-> FALSE,
            dupAtBegin |-> FALSE, busyAtBegin |-> FALSE]
IdleH == [kind |-> None, stream |-> FALSE, pc |-> "idle", sid |-> FALSE,
          disc |-> FALSE, ends |-> 0, status |-> None, malformed |-> FALSE]

SMInit ==
    /\ now = 0
    /\ nticks = 0
    /\ activeRequests = [s \in SessionKeys |-> NoEntry]
    /\ dedupeCache = [k \in Hashes |-> NoEntry]
    /\ req = [r \in Reqs |-> IdleReq]

\* A handler calls startRequest for a request that just arrived.
Begin(r, b) ==
    /\ req[r].st = "idle"
    /\ \A q \in Reqs : q < r => req[q].st # "idle"
    /\ LET sid == extractSessionId(b)
           res == startRequest(activeRequests, dedupeCache, sid, b, now)
       IN /\ activeRequests' = res.active
          /\ dedupeCache' = res.dedupe
          /\ req' = [req EXCEPT ![r] =
                        [st |-> IF res.accepted THEN "admitted" ELSE "rejected",
                         body |-> b, reason |-> res.reason,
                         start |-> IF res.accepted THEN now ELSE 0, late |-> FALSE,
                         dupAtBegin |-> isDuplicateRequest(dedupeCache, b, now),
                         busyAtBegin |-> activeRequests[sid] # NoEntry]]
    /\ UNCHANGED <<now, nticks>>

\* The handler of an admitted request calls endRequest with its session key.
End(r) ==
    /\ req[r].st = "admitted"
    /\ LET res == endRequest(activeRequests, dedupeCache, extractSessionId(req[r].body))
       IN /\ activeRequests' = res.active
          /\ dedupeCache' = res.dedupe
    /\ req' = [req EXCEPT ![r].st = "ended", ![r].start = 0,
                           ![r].late = now - req[r].start > requestTimeoutMs]
    /\ UNCHANGED <<now, nticks>>

\* The 30-second timer runs cleanup.
Cleanup ==
    /\ LET res == cleanup(activeRequests, dedupeCache, now)
       IN /\ activeRequests' = res.active
          /\ dedupeCache' = res.dedupe
    /\ UNCHANGED <<now, nticks, req>>

\* Time passes.
Tick ==
    /\ nticks < MaxTicks
    /\ \E d \in TickSteps : now' = now + d
    /\ nticks' = nticks + 1
    /\ UNCHANGED <<activeRequests, dedupeCache, req>>

(***************************************************************************)
(* Admission controller: claims.                                           *)
(***************************************************************************)
Live(r) == req[r].st = "admitted"

LiveOn(s) == {r \in Reqs : Live(r) /\ extractSessionId(req[r].body) = s}

\* The request stayed admitted for longer than the request timeout.
Overdue(r) ==
    \/ Live(r) /\ now - req[r].start > requestTimeoutMs
    \/ req[r].st = "ended" /\ req[r].late

\* C1 as stated: whatever the elapsed time, at most one request per session key
\* is admitted and not yet ended.
C1_AtMostOneAdmitted ==
    \A s \in SessionKeys : Cardinality(LiveOn(s)) <= 1

\* C1 amended: as long as no admitted request has stayed un-ended for more than
\* requestTimeoutMs, at most one request per session key is admitted and not
\* yet ended.
C1_AtMostOneWithinTimeout ==
    (\A r \in Reqs : ~Overdue(r)) => \A s \in SessionKeys : Cardinality(LiveOn(s)) <= 1

C1_Witness ==
    /\ nticks > 0
    /\ \A r \in Reqs : ~Overdue(r)
    /\ \E r, q \in Reqs :
          /\ Live(r)
          /\ req[q].st = "rejected" /\ req[q].reason = "busy"
          /\ extractSessionId(req[q].body) = extractSessionId(req[r].body)
          /\ req[q].body # req[r].body

\* C3: a begin whose body has an in-progress dedupe entry younger than the
\* dedupe window is rejected with the duplicate reason, also when the session
\* key has an active entry.
C3_DuplicateReason ==
    \A r \in Reqs :
        req[r].dupAtBegin => req[r].st = "rejected" /\ req[r].reason = "Duplicate"

EndedNow(r) == req[r].st = "admitted" /\ req'[r].st = "ended"

C36_EndRemovesOnlyOwnEntry ==
    [][\A r \in Reqs : EndedNow(r) =>
          LET sid == extractSessionId(req[r].body) IN
          (activeRequests[sid] # NoEntry /\ activeRequests[sid].startTime # req[r].start)
              => /\ activeRequests'[sid] = activeRequests[sid]
                 /\ dedupeCache' = dedupeCache]_vars

\* C37: a begin that is rejected leaves the active-request table and the
\* dedupe table as they were.
C37_RejectedBeginChangesNothing ==
    [][\A r \in Reqs : (req[r].st = "idle" /\ req'[r].st = "rejected") =>
          /\ activeRequests' = activeRequests
          /\ dedupeCache' = dedupeCache]_vars

(***************************************************************************)
(* Credential store and token authority (src/src/storage.ts,              *)
(* src/src/auth.ts) and the upstream client                               *)
(* (src/src/utils/request-processor.ts).                                   *)
(***************************************************************************)
MAX_RETRIES == 3
MaxClients == 2

Clients == 1..MaxClients

\* The g-th credential triple the OAuth endpoint issued (0: the login's).
Triple(g) == [refresh |-> g, access |-> g, expires |-> g]

\* A triple of the login whose expiry has passed.
StaleTriple == [refresh |-> 0, access |-> 0, expires |-> -1]
\* The expiry of the record has passed.
isExpired(auth) == auth.expires < now

\* loadAuth: the record, or null when the file is absent or does not parse.
loadAuth(file) == IF file = NoFile \/ file = EmptyFile THEN NoFile ELSE file

\* The two upstream paths: sendClaudeCodeRequest (messages handler) and the
\* fetch made by createAuthenticatedFetch (chat-completions, responses).
Paths == {"send", "authFetch"}

UpstreamAnswers == {"200", "401", "429", "529", "500", "neterr"}

IdleUp == [pc |-> "idle", path |-> "send", attempts |-> 0, token |-> -1,
           pending |-> NoFile, refreshCalls |-> 0, refreshed |-> 0, posts |-> 0,
           postToken |-> -1, last |-> None, result |-> None,
           refreshFailed |-> FALSE, postsAtFailure |-> 0, fileAtRefresh |-> NoFile]

UpIdle ==
    /\ authFile = Triple(0)
    /\ oauthGen = 0
    /\ persisted = {Triple(0)}
    /\ live = {}
    /\ up = [c \in Clients |-> IdleUp]

UpStart_RefreshWhenExpired(c, path) ==
    /\ c \in live /\ up[c].pc = "idle"
    /\ LET auth == loadAuth(authFile) IN
       up' = [up EXCEPT ![c] =
                 IF auth = NoFile
                 THEN [@ EXCEPT !.path = path, !.pc = "done",
                                !.result = "NotAuthenticated"]
                 ELSE IF isExpired(auth)
                 THEN [@ EXCEPT !.path = path, !.pc = "refresh-load"]
                 ELSE [@ EXCEPT !.path = path, !.pc = "loop", !.token = auth.access]]
    /\ UNCHANGED <<authFile, oauthGen, persisted, live>>

\* getValidAccessToken: the stored access field, whatever the expiry.
UpStart(c, path) ==
    /\ c \in live /\ up[c].pc = "idle"
    /\ LET auth == loadAuth(authFile) IN
       up' = [up EXCEPT ![c] =
                 IF auth = NoFile
                 THEN [@ EXCEPT !.path = path, !.pc = "done",
                                !.result = "NotAuthenticated"]
                 ELSE [@ EXCEPT !.path = path, !.pc = "loop", !.token = auth.access]]
    /\ UNCHANGED <<authFile, oauthGen, persisted, live>>

UpPost_ExtraAttempt(c) ==
    /\ c \in live /\ up[c].pc = "loop"
    /\ up' = [up EXCEPT ![c] =
                 IF up[c].attempts < MAX_RETRIES + 1
                 THEN [@ EXCEPT !.attempts = @ + 1, !.posts = @ + 1,
                                !.postToken = up[c].token, !.pc = "posted"]
                 ELSE [@ EXCEPT !.pc = "done", !.result = "throw-max-retries"]]
    /\ UNCHANGED <<authFile, oauthGen, persisted, live>>

\* The head of the retry loop: one more attempt, or the loop is exhausted.
UpPost(c) ==
    /\ c \in live /\ up[c].pc = "loop"
    /\ up' = [up EXCEPT ![c] =
                 IF up[c].attempts < MAX_RETRIES
                 THEN [@ EXCEPT !.attempts = @ + 1, !.posts = @ + 1,
                                !.postToken = up[c].token, !.pc = "posted"]
                 ELSE [@ EXCEPT !.pc = "done", !.result = "throw-max-retries"]]
    /\ UNCHANGED <<authFile, oauthGen, persisted, live>>

\* Where the client goes when fetch throws (a network error, a timeout).
onFetchError(path, attempts) ==
    IF path = "send" /\ attempts < MAX_RETRIES THEN "loop" ELSE "throw"

\* The upstream answers the POST.
UpAnswer(c, a) ==
    /\ c \in live /\ up[c].pc = "posted"
    /\ up' = [up EXCEPT ![c] =
                 IF a = "401" THEN [@ EXCEPT !.last = a, !.pc = "refresh-load",
                                             !.refreshCalls = @ + 1]
                 ELSE IF a \in {"429", "529"} THEN [@ EXCEPT !.last = a, !.pc = "loop"]
                 ELSE IF a = "neterr"
                 THEN IF onFetchError(up[c].path, up[c].attempts) = "loop"
                      THEN [@ EXCEPT !.last = a, !.pc = "loop"]
                      ELSE [@ EXCEPT !.last = a, !.pc = "done", !.result = "throw-neterr"]
                 ELSE [@ EXCEPT !.last = a, !.pc = "done", !.result = a]]
    /\ UNCHANGED <<authFile, oauthGen, persisted, live>>

\* forceRefreshAccessToken: loadAuth; without a record it returns null and the
\* 401 response is returned.
RefreshLoad(c) ==
    /\ c \in live /\ up[c].pc = "refresh-load"
    /\ LET auth == loadAuth(authFile) IN
       up' = [up EXCEPT ![c] =
                 IF auth = NoFile
                 THEN [@ EXCEPT !.pc = "done", !.result = "401",
                                !.refreshFailed = TRUE, !.postsAtFailure = up[c].posts,
                                !.fileAtRefresh = authFile]
                 ELSE [@ EXCEPT !.pc = "refresh-call", !.fileAtRefresh = authFile]]
    /\ UNCHANGED <<authFile, oauthGen, persisted, live>>

forceRefresh_ReturnBeforeSave == "refresh-return"

\* forceRefreshAccessToken after a successful refreshToken: saveAuth is awaited
\* before the access token is returned.
forceRefresh_AfterRefreshToken == "save-open"

OAuthAnswers == {"success", "failed", "throw"}

\* refreshToken: the OAuth endpoint issues a new triple, or refuses, or the
\* fetch to it throws.
RefreshCall(c, o) ==
    /\ c \in live /\ up[c].pc = "refresh-call"
    /\ IF o = "success"
       THEN /\ oauthGen' = oauthGen + 1
            /\ up' = [up EXCEPT ![c].pending = Triple(oauthGen + 1),
                                ![c].pc = forceRefresh_AfterRefreshToken]
       ELSE /\ oauthGen' = oauthGen
            /\ up' = [up EXCEPT ![c] =
                         LET f == [up[c] EXCEPT !.refreshFailed = TRUE,
                                                !.postsAtFailure = up[c].posts]
                         IN  IF o = "failed"
                             THEN [f EXCEPT !.pc = "done", !.result = "401"]
                             ELSE IF onFetchError(up[c].path, up[c].attempts) = "loop"
                             THEN [f EXCEPT !.pc = "loop"]
                             ELSE [f EXCEPT !.pc = "done", !.result = "throw-neterr"]]
    /\ UNCHANGED <<authFile, persisted, live>>

\* saveAuth, writeFile: the file is opened and truncated.
SaveOpen(c) ==
    /\ c \in live /\ up[c].pc = "save-open"
    /\ authFile' = EmptyFile
    /\ up' = [up EXCEPT ![c].pc = "save-write"]
    /\ UNCHANGED <<oauthGen, persisted, live>>

\* saveAuth, writeFile: the serialised record is written.
SaveWrite(c) ==
    /\ c \in live /\ up[c].pc = "save-write"
    /\ authFile' = up[c].pending
    /\ persisted' = persisted \cup {up[c].pending}
    /\ up' = [up EXCEPT ![c].pc = "refresh-return"]
    /\ UNCHANGED <<oauthGen, live>>

\* forceRefreshAccessToken returns result.access; the caller retries with it.
RefreshReturn(c) ==
    /\ c \in live /\ up[c].pc = "refresh-return"
    /\ up' = [up EXCEPT ![c].token = up[c].pending.access,
                        ![c].refreshed = @ + 1,
                        ![c].pc = "loop"]
    /\ UNCHANGED <<authFile, oauthGen, persisted, live>>

UpNext ==
    \/ \E c \in Clients, path \in Paths : UpStart(c, path) /\ UNCHANGED notUp
    \/ \E c \in Clients : UpPost(c) /\ UNCHANGED notUp
    \/ \E c \in Clients, a \in UpstreamAnswers : UpAnswer(c, a) /\ UNCHANGED notUp
    \/ \E c \in Clients : RefreshLoad(c) /\ UNCHANGED notUp
    \/ \E c \in Clients, o \in OAuthAnswers : RefreshCall(c, o) /\ UNCHANGED notUp
    \/ \E c \in Clients : SaveOpen(c) /\ UNCHANGED notUp
    \/ \E c \in Clients : SaveWrite(c) /\ UNCHANGED notUp
    \/ \E c \in Clients : RefreshReturn(c) /\ UNCHANGED notUp

Init ==
    /\ SMInit
    /\ h = [r \in Reqs |-> IdleH]
    /\ UpIdle
    /\ TrIdle
    /\ DecIdle
    /\ RwIdle
    /\ RelayIdle
    /\ KeyIdle
    /\ SkIdle
    /\ WatchIdle

\* One proxied request, authenticated or not.
UpstreamInit ==
    /\ SMInit
    /\ h = [r \in Reqs |-> IdleH]
    /\ authFile \in {Triple(0), StaleTriple, NoFile}
    /\ oauthGen = 0
    /\ persisted = {Triple(0)} \cup ({authFile} \ {NoFile})
    /\ live = {1}
    /\ up = [c \in Clients |-> IdleUp]
    /\ TrIdle
    /\ DecIdle
    /\ RwIdle
    /\ RelayIdle
    /\ KeyIdle
    /\ SkIdle
    /\ WatchIdle

UpstreamSpec == UpstreamInit /\ [][UpNext]_vars

\* C9: for one proxied request the force-refresh is invoked at most once and
\* the upstream call is retried at most once after it; a 401 answer to the
\* retried call is surfaced to the caller.
C9_RefreshOnceRetryOnce ==
    \A c \in live :
        /\ up[c].refreshCalls <= 1
        /\ up[c].refreshed >= 1 => up[c].posts <= 2
        /\ (up[c].pc = "done" /\ up[c].refreshed >= 1 /\ up[c].last = "401")
              => up[c].result = "401"

\* C10: the access token a refresh hands to the caller belongs to a triple that
\* was completely written to auth.json before; the retried upstream call
\* carries that token; after the request the file holds the new triple.
C10_PersistedBeforeReturned ==
    \A c \in live :
        /\ up[c].refreshed >= 1 =>
              /\ up[c].token \in {t.access : t \in persisted \ {Triple(0)}}
              /\ up[c].pc = "posted" => up[c].postToken = up[c].pending.access
        /\ (up[c].pc = "done" /\ up[c].refreshed >= 1 /\ live = {c})
              => authFile = up[c].pending

C10_Witness ==
    \E c \in live :
        /\ up[c].pc = "done" /\ up[c].result = "200"
        /\ up[c].refreshed = 1 /\ up[c].posts = 2
        /\ up[c].postToken = 1
        /\ authFile = Triple(1)

\* C11: when the refresh call fails after an upstream 401 (no stored record,
\* the OAuth endpoint refuses, or the call to it throws), the 401 response is
\* returned at once, no further upstream POST is made for the request and
\* auth.json is what it was before the refresh.
C11_RefreshFailureSurfaces401 ==
    \A c \in live :
        up[c].refreshFailed =>
            /\ up[c].pc = "done" /\ up[c].result = "401"
            /\ up[c].posts = up[c].postsAtFailure
            /\ live = {c} => authFile = up[c].fileAtRefresh

\* Every awaited call settles (an answer, an error or a timeout), and the
\* function then goes on.
UpstreamLiveSpec == UpstreamSpec /\ WF_vars(UpNext)

\* C12: whatever the upstream and the OAuth endpoint answer, one proxied
\* request makes at most MAX_RETRIES upstream POSTs, and it ends: with a
\* response or with an error.
C12_AtMostThreePostsAndEnds ==
    /\ [](\A c \in live : up[c].posts <= MAX_RETRIES)
    /\ <>(\A c \in live : up[c].pc = "done" /\ up[c].result # None)

\* Three POSTs answered 429, 529 and 429: the loop is exhausted.
C12_Witness ==
    \E c \in live :
        /\ up[c].pc = "done" /\ up[c].result = "throw-max-retries"
        /\ up[c].posts = MAX_RETRIES /\ up[c].refreshCalls = 0

C30_NetworkErrorRetriedThrice ==
    \A c \in live :
        (up[c].pc = "done" /\ up[c].result = "throw-neterr" /\ up[c].last = "neterr")
            => up[c].posts = MAX_RETRIES

\* Several proxied requests at once, over one credential file.
ConcurrentUpstreamInit ==
    /\ SMInit
    /\ h = [r \in Reqs |-> IdleH]
    /\ authFile = Triple(0)
    /\ oauthGen = 0
    /\ persisted = {Triple(0)}
    /\ live = Clients
    /\ up = [c \in Clients |-> IdleUp]
    /\ TrIdle
    /\ DecIdle
    /\ RwIdle
    /\ RelayIdle
    /\ KeyIdle
    /\ SkIdle
    /\ WatchIdle

ConcurrentUpstreamSpec == ConcurrentUpstreamInit /\ [][UpNext]_vars

\* C21: under concurrent force-refreshes auth.json holds at all times a whole
\* triple, the login's or one issued by a single refresh, and when all
\* requests are over it holds the triple some refresh has written, if any
\* was.
C21_FileAlwaysWholeTriple ==
    /\ authFile \in {Triple(g) : g \in 0..oauthGen}
    /\ (\A c \in live : up[c].pc = "done") =>
          authFile \in {Triple(0)} \cup {up[c].pending : c \in {d \in live : up[d].refreshed >= 1}}

\* C29: a request that reads the credentials while a refresh is being
\* persisted sees the old or the new record: it is never answered as not
\* authenticated.
C29_ReadSeesWholeRecord ==
    \A c \in live : up[c].result # "NotAuthenticated"

Next ==
    \/ \E r \in Reqs, b \in Bodies : Begin(r, b) /\ UNCHANGED <<h, xVars>>
    \/ \E r \in Reqs : End(r) /\ UNCHANGED <<h, xVars>>
    \/ Cleanup /\ UNCHANGED <<h, xVars>>
    \/ Tick /\ UNCHANGED <<h, xVars>>

Spec == Init /\ [][Next]_vars

(***************************************************************************)
(* Request handlers: the paths from startRequest to endRequest             *)
(* (src/src/handlers/messages.ts, src/unnamed/part_003,                    *)
(* src/unnamed/part_005).                                                  *)
(***************************************************************************)
Kinds == {"messages", "chat", "responses"}

\* n calls of sessionManager.endRequest(sessionId) by the handler of r, each
\* guarded by "if (sessionId)".
CallEnd(r, n) ==
    IF n = 0 \/ ~h[r].sid
    THEN UNCHANGED <<activeRequests, dedupeCache, req>>
    ELSE LET res == endRequest(activeRequests, dedupeCache, extractSessionId(req[r].body))
         IN /\ activeRequests' = res.active
            /\ dedupeCache' = res.dedupe
            /\ req' = [req EXCEPT ![r].st = IF @ = "admitted" THEN "ended" ELSE @,
                                  ![r].start = 0,
                                  ![r].late = now - req[r].start > requestTimeoutMs]

\* The handler leaves its code path with `status`, having called endRequest n times.
Leave(r, n, status) ==
    /\ CallEnd(r, n)
    /\ h' = [h EXCEPT ![r].pc = "done", ![r].status = status,
                      ![r].ends = @ + (IF h[r].sid THEN n ELSE 0)]
    /\ UNCHANGED <<now, nticks>>

HArrive_EndOnReject(r, k, st, b) ==
    /\ h[r].pc = "idle"
    /\ req[r].st = "idle"
    /\ \A q \in Reqs : q < r => req[q].st # "idle"
    /\ LET sid == extractSessionId(b)
           res == startRequest(activeRequests, dedupeCache, sid, b, now)
           fin == IF res.accepted THEN res ELSE endRequest(res.active, res.dedupe, sid)
       IN /\ activeRequests' = fin.active
          /\ dedupeCache' = fin.dedupe
          /\ req' = [req EXCEPT ![r] =
                        [st |-> IF res.accepted THEN "admitted" ELSE "rejected",
                         body |-> b, reason |-> res.reason,
                         start |-> IF res.accepted THEN now ELSE 0, late |-> FALSE,
                         dupAtBegin |-> isDuplicateRequest(dedupeCache, b, now),
                         busyAtBegin |-> activeRequests[sid] # NoEntry]]
          /\ h' = [h EXCEPT ![r] =
                      [kind |-> k, stream |-> st, sid |-> TRUE, disc |-> FALSE,
                       ends |-> IF res.accepted THEN 0 ELSE 1, malformed |-> FALSE,
                       pc |-> IF res.accepted THEN "prepare" ELSE "done",
                       status |-> IF res.accepted THEN None ELSE "429"]]
    /\ UNCHANGED <<now, nticks>>

\* A request arrives: the handler derives the session key and calls
\* startRequest; a rejected request is answered 429 at once.
HArrive(r, k, st, b) ==
    /\ h[r].pc = "idle"
    /\ Begin(r, b)
    /\ h' = [h EXCEPT ![r] =
                [kind |-> k, stream |-> st, sid |-> TRUE, disc |-> FALSE, ends |-> 0,
                 malformed |-> FALSE,
                 pc |-> IF req'[r].st = "rejected" THEN "done" ELSE "prepare",
                 status |-> IF req'[r].st = "rejected" THEN "429" ELSE None]]

\* A request arrives whose body is not JSON: c.req.json() (chat, responses) or
\* the JSON.parse in the argument of logRequest (messages) throws while
\* sessionId is still null; the outer catch answers 500.
HMalformed(r, k) ==
    /\ h[r].pc = "idle"
    /\ req[r].st = "idle"
    /\ CallEnd(r, 1)
    /\ h' = [h EXCEPT ![r] = [IdleH EXCEPT !.kind = k, !.pc = "done", !.status = "500",
                                           !.malformed = TRUE]]
    /\ UNCHANGED <<now, nticks>>

\* Conversion / decoration of the body and creation of the upstream call.
\* A throw lands in the handler's outer catch.
HPrepare(r, ok) ==
    /\ h[r].pc = "prepare"
    /\ IF ok
       THEN /\ h' = [h EXCEPT ![r].pc =
                        IF h[r].kind = "messages" THEN "upstream"
                        ELSE IF h[r].stream THEN "init" ELSE "await"]
            /\ UNCHANGED smVars
       ELSE Leave(r, 1, "500")

\* messages: await sendClaudeCodeRequest. out: "body" (a response with a
\* body), "nobody" (a response without body), "throw".
MsgUpstream(r, out) ==
    /\ h[r].pc = "upstream" /\ h[r].kind = "messages"
    /\ IF out = "throw"
       THEN Leave(r, 1, "500")
       ELSE /\ h' = [h EXCEPT ![r].pc =
                        IF out = "body" /\ h[r].stream THEN "streaming" ELSE "await",
                                  ![r].status = IF out = "body" /\ h[r].stream
                                                THEN "sse" ELSE None]
            /\ UNCHANGED smVars

\* Non-streaming: await response.text() (messages) or result.text (chat,
\* responses); a throw lands in the outer catch.
HAwait(r, ok) ==
    /\ h[r].pc = "await"
    /\ Leave(r, 1, IF ok THEN "200" ELSE "500")

\* chat / responses, streaming: streamText() is called in its own try; its
\* catch returns an SSE error stream.
SseInit(r, ok) ==
    /\ h[r].pc = "init"
    /\ IF ok
       THEN /\ h' = [h EXCEPT ![r].pc = "streaming", ![r].status = "sse"]
            /\ UNCHANGED smVars
       ELSE Leave(r, 0, "sse-error")

\* messages, streaming: pull() got a chunk and enqueued it.
MsgPullChunk(r) ==
    /\ h[r].pc = "streaming" /\ h[r].kind = "messages"
    /\ UNCHANGED vars

\* messages, streaming: pull() read the end of the upstream body.
MsgPullDone(r) ==
    /\ h[r].pc = "streaming" /\ h[r].kind = "messages"
    /\ Leave(r, 1, "sse-closed")

\* messages, streaming: reader.read() rejects inside pull(); the stream errors.
MsgPullError(r) ==
    /\ h[r].pc = "streaming" /\ h[r].kind = "messages"
    /\ Leave(r, 0, "sse-errored")

\* messages, streaming: the client disconnects; the stream's cancel() runs.
MsgCancel(r) ==
    /\ h[r].pc = "streaming" /\ h[r].kind = "messages"
    /\ Leave(r, 1, "sse-cancelled")

\* chat / responses, streaming: the client disconnects; the stream has no
\* cancel(), later enqueue / close calls throw.
SseDisconnect(r) ==
    /\ h[r].pc = "streaming" /\ h[r].kind # "messages" /\ ~h[r].disc
    /\ h' = [h EXCEPT ![r].disc = TRUE]
    /\ UNCHANGED smVars

\* chat / responses, streaming: a part of fullStream is rewritten and
\* enqueued; on a cancelled stream enqueue throws into the catch.
SsePart(r) ==
    /\ h[r].pc = "streaming" /\ h[r].kind # "messages"
    /\ IF h[r].disc
       THEN Leave(r, 1, "sse-cancelled")
       ELSE UNCHANGED vars

\* chat / responses, streaming: the loop over fullStream throws.
SseThrow(r) ==
    /\ h[r].pc = "streaming" /\ h[r].kind # "messages"
    /\ Leave(r, 1, IF h[r].disc THEN "sse-cancelled" ELSE "sse-closed")

\* chat / responses, streaming: fullStream ended; endRequest, then the
\* terminator / close, which throw into the catch on a cancelled stream.
SseFinish(r) ==
    /\ h[r].pc = "streaming" /\ h[r].kind # "messages"
    /\ IF h[r].disc
       THEN Leave(r, 2, "sse-cancelled")
       ELSE Leave(r, 1, "sse-closed")

\* The request slots whose handlers run.
HReqs == 1..MaxHandlers

HNext ==
    \/ \E r \in HReqs, k \in Kinds, st \in BOOLEAN, b \in Bodies : HArrive(r, k, st, b) /\ UNCHANGED xVars
    \/ \E r \in HReqs, k \in Kinds : HMalformed(r, k) /\ UNCHANGED xVars
    \/ \E r \in HReqs, ok \in BOOLEAN : HPrepare(r, ok) /\ UNCHANGED xVars
    \/ \E r \in HReqs, out \in {"body", "nobody", "throw"} : MsgUpstream(r, out) /\ UNCHANGED xVars
    \/ \E r \in HReqs, ok \in BOOLEAN : HAwait(r, ok) /\ UNCHANGED xVars
    \/ \E r \in HReqs, ok \in BOOLEAN : SseInit(r, ok) /\ UNCHANGED xVars
    \/ \E r \in HReqs : MsgPullChunk(r) /\ UNCHANGED xVars
    \/ \E r \in HReqs : MsgPullDone(r) /\ UNCHANGED xVars
    \/ \E r \in HReqs : MsgPullError(r) /\ UNCHANGED xVars
    \/ \E r \in HReqs : MsgCancel(r) /\ UNCHANGED xVars
    \/ \E r \in HReqs : SseDisconnect(r) /\ UNCHANGED xVars
    \/ \E r \in HReqs : SsePart(r) /\ UNCHANGED xVars
    \/ \E r \in HReqs : SseThrow(r) /\ UNCHANGED xVars
    \/ \E r \in HReqs : SseFinish(r) /\ UNCHANGED xVars

HandlerSpec == Init /\ [][HNext]_vars

\* C2: every admitted request is followed by end for its session key: a
\* handler that has left its last code path has called endRequest.
C2_AdmittedRequestEnds ==
    \A r \in HReqs : h[r].pc = "done" => req[r].st # "admitted"

\* C20: a request whose body is malformed JSON is answered 400, on every
\* endpoint, and no admission entry is made for it.
C20_MalformedJsonIs400 ==
    \A r \in HReqs : h[r].malformed =>
        /\ h[r].status = "400"
        /\ req[r].st = "idle"

\* C38: the handler of a request that startRequest rejected has answered
\* 429 and has never called endRequest; the entry of the request admitted
\* on its session key is still in the table.
C38_RejectedNeverEnds ==
    \A r \in HReqs : req[r].st = "rejected" =>
        /\ h[r].pc = "done" /\ h[r].status = "429" /\ h[r].ends = 0
        /\ \A q \in HReqs :
              (Live(q) /\ extractSessionId(req[q].body) = extractSessionId(req[r].body))
                  => activeRequests[extractSessionId(req[q].body)] # NoEntry

\* A chat-completions request was rejected as busy while the request
\* admitted on its session key is streaming.
C38_Witness ==
    \E r, q \in HReqs :
        /\ req[r].st = "rejected" /\ req[r].reason = "busy" /\ h[r].status = "429"
        /\ h[r].kind = "chat"
        /\ Live(q) /\ h[q].pc = "streaming"
        /\ extractSessionId(req[q].body) = extractSessionId(req[r].body)

(***************************************************************************)
(* The Responses input translator (src/unnamed/part_009):                  *)
(* convertResponsesInputToAISDK and postProcessMessages.  An input item is *)
(* a message (with its role and its text), a function_call or a            *)
(* function_call_output (with its call_id).  An output message has a role  *)
(* and a list of content parts; a string content is the one text part.    *)
(* The name of a tool is determined by its call id.                        *)
(***************************************************************************)
MaxItems == 4

CallIds == {"A", "B"}

Msg(role, text) == [type |-> "message", role |-> role, text |-> text, id |-> ""]
FunctionCall(id) == [type |-> "function_call", role |-> "", text |-> "", id |-> id]
FunctionCallOutput(id) ==
    [type |-> "function_call_output", role |-> "", text |-> "", id |-> id]

\* The items a client may send: messages of the three roles, one of them with
\* nothing but white space, and calls and outputs.
InputItems ==
    {Msg("user", "hi"), Msg("assistant", "planning"), Msg("assistant", " "),
     Msg("developer", "rules")}
        \cup {FunctionCall(c) : c \in CallIds}
        \cup {FunctionCallOutput(c) : c \in CallIds}

\* text.trim() is empty.
Blank(text) == text \in {"", " "}

TextPart(text) == [type |-> "text", id |-> "", text |-> text, name |-> ""]
ToolCallPart(id) == [type |-> "tool-call", id |-> id, text |-> "", name |-> id]
ToolResultPart(id, name) == [type |-> "tool-result", id |-> id, text |-> "", name |-> name]

Message(role, content) == [role |-> role, content |-> content]

Range(seq) == {seq[i] : i \in 1..Len(seq)}
idsOf(seq) == [i \in 1..Len(seq) |-> seq[i].id]
toolCallParts(ids) == [i \in 1..Len(ids) |-> ToolCallPart(ids[i])]
InsertAt(seq, i, e) == SubSeq(seq, 1, i - 1) \o <<e>> \o SubSeq(seq, i, Len(seq))
isCall(item) == item.type = "function_call"
isOutput(item) == item.type = "function_call_output"
isMessage(item) == item.type = "message"

\* msg is an assistant message with a tool-call of this id.
hasToolCall(msg, id) ==
    /\ msg.role = "assistant"
    /\ \E j \in 1..Len(msg.content) :
          msg.content[j].type = "tool-call" /\ msg.content[j].id = id

alreadyProcessed_Never(messages, id) == FALSE

\* messages.some(assistant message with a tool-call of this id)
alreadyProcessed(messages, id) ==
    \E i \in 1..Len(messages) : hasToolCall(messages[i], id)

\* input.find(function_call_output of this call_id) found one.
findOutput(input, id) == \E i \in 1..Len(input) : isOutput(input[i]) /\ input[i].id = id

\* input.find(function_call of this call_id) found one.
findCall(input, id) == \E i \in 1..Len(input) : isCall(input[i]) /\ input[i].id = id

\* toolCallInfo.get(call_id) || "unknown"
toolNameOf(input, id) == IF findCall(input, id) THEN id ELSE "unknown"

\* The loops that turn call ids into tool-result parts: an id is taken when
\* processedOutputs does not hold it and the input has its output.
RECURSIVE collectResults(_, _, _)
collectResults(input, ids, processed) ==
    IF ids = <<>> THEN [results |-> <<>>, processed |-> processed]
    ELSE LET id == Head(ids)
             take == id \notin processed /\ findOutput(input, id)
             rest == collectResults(input, Tail(ids),
                                    IF take THEN processed \cup {id} ELSE processed)
         IN  [results |-> IF take
                          THEN <<ToolResultPart(id, toolNameOf(input, id))>> \o rest.results
                          ELSE rest.results,
              processed |-> rest.processed]

\* messages.push(message) under "if (content.length > 0)".
pushIf(messages, role, content) ==
    IF content = <<>> THEN messages ELSE Append(messages, Message(role, content))

\* The index of the last message item before k, or 0.
prevMessageIndex(input, k) ==
    LET S == {i \in 1..(k - 1) : isMessage(input[i])}
    IN  IF S = {} THEN 0 ELSE CHOOSE i \in S : \A j \in S : j <= i

\* The index of the first message item after k, or the length plus one.
nextMessageIndex(input, k) ==
    LET S == {i \in (k + 1)..Len(input) : isMessage(input[i])}
    IN  IF S = {} THEN Len(input) + 1 ELSE CHOOSE i \in S : \A j \in S : i <= j

\* A developer or system message joins the system prompt (the pieces are
\* joined by a blank line).
systemItem(input, k, st) ==
    IF Blank(input[k].text) THEN st
    ELSE [st EXCEPT !.system = Append(@, input[k].text)]

\* An assistant message: the calls before it that no message holds yet become
\* a turn of their own with their results; then the message itself, with the
\* calls of its window whose outputs lie in the window, and their results.
assistantItem(input, k, st) ==
    LET item == input[k]
        lo == prevMessageIndex(input, k)
        hi == nextMessageIndex(input, k)
        precedingToolCalls ==
            SelectSeq(SubSeq(input, lo + 1, k - 1),
                      LAMBDA it : isCall(it) /\ ~alreadyProcessed(st.messages, it.id))
        precedingToolCallIds == idsOf(precedingToolCalls)
        prec == collectResults(input, precedingToolCallIds, st.processed)
        m1 == IF precedingToolCalls = <<>> THEN st.messages
              ELSE pushIf(Append(st.messages,
                                 Message("assistant", toolCallParts(precedingToolCallIds))),
                          "tool", prec.results)
        p1 == IF precedingToolCalls = <<>> THEN st.processed ELSE prec.processed
        textParts == IF Blank(item.text) THEN <<>> ELSE <<TextPart(item.text)>>
        window == SubSeq(input, k + 1, hi - 1)
        availableOutputIds == {it.id : it \in {w \in Range(window) : isOutput(w)}}
        toolCallIds ==
            idsOf(SelectSeq(window, LAMBDA it : isCall(it) /\ it.id \in availableOutputIds))
        contentParts == textParts \o toolCallParts(toolCallIds)
        m2 == pushIf(m1, "assistant", contentParts)
        outputIds ==
            idsOf(SelectSeq(window, LAMBDA it : isOutput(it) /\ it.id \in Range(toolCallIds)))
        res == collectResults(input, outputIds, p1)
    IN  IF toolCallIds = <<>>
        THEN [st EXCEPT !.messages = m2, !.processed = p1]
        ELSE [st EXCEPT !.messages = pushIf(m2, "tool", res.results),
                        !.processed = res.processed]

\* A user message is kept when it has content.
userItem(input, k, st) ==
    IF Blank(input[k].text) THEN st
    ELSE [st EXCEPT !.messages =
                        Append(@, Message(input[k].role, <<TextPart(input[k].text)>>))]

\* A function_call_output that no turn has taken yet: it joins the tool message
\* at the end, or the tool message after the assistant message that holds its
\* call, or a new pair of messages; without a function_call it is dropped.
functionCallOutputItem(input, k, st) ==
    LET id == input[k].id
        part == ToolResultPart(id, toolNameOf(input, id))
        call == Message("assistant", <<ToolCallPart(id)>>)
        n == Len(st.messages)
        lastIsTool == n > 0 /\ st.messages[n].role = "tool"
        hasCorrespondingToolCall == n > 1 /\ hasToolCall(st.messages[n - 1], id)
        existing == {i \in 1..n : hasToolCall(st.messages[i], id)}
        existingAssistantIndex ==
            IF existing = {} THEN 0 ELSE CHOOSE i \in existing : \A j \in existing : i <= j
        merged ==
            IF lastIsTool
            THEN IF hasCorrespondingToolCall
                 THEN [st.messages EXCEPT ![n].content = Append(@, part)]
                 ELSE IF findCall(input, id)
                 THEN InsertAt([st.messages EXCEPT ![n].content = Append(@, part)], n, call)
                 ELSE st.messages
            ELSE IF existingAssistantIndex # 0
            THEN IF existingAssistantIndex < n
                      /\ st.messages[existingAssistantIndex + 1].role = "tool"
                 THEN [st.messages EXCEPT
                          ![existingAssistantIndex + 1].content = Append(@, part)]
                 ELSE InsertAt(st.messages, existingAssistantIndex + 1,
                               Message("tool", <<part>>))
            ELSE IF findCall(input, id)
            THEN st.messages \o <<call, Message("tool", <<part>>)>>
            ELSE st.messages
    IN  IF id \in st.processed THEN st
        ELSE [st EXCEPT !.messages = merged, !.processed = @ \cup {id}]

batchEnd_SingleCall(input, k) == k + 1

\* The index of the first item from k on that is a message or an output, or
\* the length plus one.
batchEnd(input, k) ==
    LET S == {i \in k..Len(input) : isMessage(input[i]) \/ isOutput(input[i])}
    IN  IF S = {} THEN Len(input) + 1 ELSE CHOOSE i \in S : \A j \in S : i <= j

\* A function_call that no assistant message holds yet: it and the calls that
\* follow it at once join the assistant message at the end, or a new one, and
\* their outputs, wherever they lie, become the tool message after it.
functionCallItem(input, k, st) ==
    LET n == Len(st.messages)
        batchCalls ==
            SelectSeq(SubSeq(input, k, batchEnd(input, k) - 1),
                      LAMBDA it : isCall(it) /\ ~alreadyProcessed(st.messages, it.id))
        batchCallIds == idsOf(batchCalls)
        m1 == IF n > 0 /\ st.messages[n].role = "assistant"
              THEN [st.messages EXCEPT ![n].content = @ \o toolCallParts(batchCallIds)]
              ELSE Append(st.messages, Message("assistant", toolCallParts(batchCallIds)))
        res == collectResults(input, batchCallIds, st.processed)
    IN  IF alreadyProcessed(st.messages, input[k].id) \/ batchCalls = <<>> THEN st
        ELSE [st EXCEPT !.messages = pushIf(m1, "tool", res.results),
                        !.processed = res.processed]

\* The second pass over the input, from item k on.
RECURSIVE walk(_, _, _)
walk(input, k, st) ==
    IF k > Len(input) THEN st
    ELSE LET item == input[k]
         IN  walk(input, k + 1,
                  IF isMessage(item)
                  THEN IF item.role \in {"developer", "system"} THEN systemItem(input, k, st)
                       ELSE IF item.role = "assistant" THEN assistantItem(input, k, st)
                       ELSE userItem(input, k, st)
                  ELSE IF isOutput(item) THEN functionCallOutputItem(input, k, st)
                  ELSE functionCallItem(input, k, st))

\* postProcessMessages, first loop: consecutive user messages become one.
RECURSIVE mergeUsers(_, _)
mergeUsers(messages, result) ==
    IF messages = <<>> THEN result
    ELSE LET msg == Head(messages)
             n == Len(result)
         IN  mergeUsers(Tail(messages),
                        IF msg.role = "user" /\ n > 0 /\ result[n].role = "user"
                        THEN [result EXCEPT ![n].content = @ \o msg.content]
                        ELSE Append(result, msg))

toolCallIdsOf(msg) ==
    IF msg.role # "assistant" THEN {}
    ELSE {msg.content[j].id : j \in {i \in 1..Len(msg.content) : msg.content[i].type = "tool-call"}}

toolResultIdsOf(msg) ==
    {msg.content[j].id : j \in {i \in 1..Len(msg.content) : msg.content[i].type = "tool-result"}}

\* The tool-result parts of these ids in the tool messages from index j on.
RECURSIVE resultsAfter(_, _, _)
resultsAfter(result, j, ids) ==
    IF j > Len(result) THEN <<>>
    ELSE (IF result[j].role = "tool"
          THEN SelectSeq(result[j].content,
                         LAMBDA c : c.type = "tool-result" /\ c.id \in ids)
          ELSE <<>>) \o resultsAfter(result, j + 1, ids)

\* The tool messages after index i lose the tool-result parts of these ids.
removeAfter(result, i, ids) ==
    [j \in 1..Len(result) |->
        IF j > i /\ result[j].role = "tool"
        THEN [result[j] EXCEPT !.content =
                 SelectSeq(@, LAMBDA c : c.type # "tool-result" \/ c.id \notin ids)]
        ELSE result[j]]

validate_NoLift(result, i, validated) == result

\* postProcessMessages, second loop: when the message after an assistant
\* message with tool-calls is no tool message, the results of its calls are
\* lifted out of the later tool messages and put right after it.  When it is
\* a tool message, results that it lacks are only logged.
RECURSIVE validate(_, _, _)
validate(result, i, validated) ==
    IF i > Len(result) THEN validated
    ELSE LET msg == result[i]
             toolCallIds == toolCallIdsOf(msg)
             nextIsTool == i < Len(result) /\ result[i + 1].role = "tool"
             toolResults == resultsAfter(result, i + 1, toolCallIds)
         IN  IF toolCallIds # {} /\ ~nextIsTool /\ toolResults # <<>>
             THEN validate(removeAfter(result, i, toolCallIds), i + 1,
                           validated \o <<msg, Message("tool", toolResults)>>)
             ELSE validate(result, i + 1, Append(validated, msg))

postProcessMessages(messages) ==
    SelectSeq(validate(mergeUsers(messages, <<>>), 1, <<>>),
              LAMBDA m : m.role # "tool" \/ m.content # <<>>)

\* The translator on an item list (for a list, "!input" is false and no
\* default message is added).  The system prompt is the list of its pieces.
convertResponsesInputToAISDK(input, instructions) ==
    LET st == walk(input, 1, [messages |-> <<>>, processed |-> {},
                              system |-> instructions])
    IN  [messages |-> postProcessMessages(st.messages), system |-> st.system]

Instructions == {<<>>, <<"be brief">>}

\* The client adds an item to its request.
AppendItem(item) ==
    /\ translated = NoOutput
    /\ Len(items) < MaxItems
    /\ items' = Append(items, item)
    /\ UNCHANGED translated

\* The responses handler translates the request.
Translate(instructions) ==
    /\ translated = NoOutput
    /\ translated' = convertResponsesInputToAISDK(items, instructions)
    /\ UNCHANGED items

TrNext ==
    \/ \E item \in InputItems : AppendItem(item) /\ UNCHANGED notTr
    \/ \E instructions \in Instructions : Translate(instructions) /\ UNCHANGED notTr

\* The input of the tool-calling loop: the calls come before the assistant
\* message, their outputs after it.
S3Input ==
    <<Msg("developer", "rules"), Msg("user", "hi"), FunctionCall("A"), FunctionCall("B"),
      Msg("assistant", "planning"), FunctionCallOutput("A"), FunctionCallOutput("B")>>

TranslatorInit ==
    /\ SMInit
    /\ h = [r \in Reqs |-> IdleH]
    /\ UpIdle
    /\ items \in {<<>>, S3Input}
    /\ translated = NoOutput
    /\ DecIdle
    /\ RwIdle
    /\ RelayIdle
    /\ KeyIdle
    /\ SkIdle
    /\ WatchIdle

TranslatorSpec == TranslatorInit /\ [][TrNext]_vars

everyCallAnswered ==
    \A i \in 1..Len(items) : isCall(items[i]) => findOutput(items, items[i].id)

\* No two function_calls and no two function_call_outputs share a call id.
uniqueCallIds ==
    \A i, j \in 1..Len(items) :
        (i # j /\ ~isMessage(items[i]) /\ items[i].type = items[j].type)
            => items[i].id # items[j].id

C6_CallsBeforePlanning ==
    (translated # NoOutput /\ items = S3Input) =>
        /\ \E ins \in Instructions : translated.system = ins \o <<"rules">>
        /\ translated.messages =
              <<Message("user", <<TextPart("hi")>>),
                Message("assistant", <<ToolCallPart("A"), ToolCallPart("B")>>),
                Message("tool", <<ToolResultPart("A", "A"), ToolResultPart("B", "B")>>),
                Message("assistant", <<TextPart("planning")>>)>>

C6_Witness ==
    /\ items = S3Input
    /\ translated # NoOutput
    /\ Len(translated.messages) = 4

\* The positions (message, part) of the parts of this type and call id in the
\* output.
partsOf(type, id) ==
    {<<i, j>> \in (1..Len(translated.messages)) \X (1..(2 * MaxItems)) :
        /\ j <= Len(translated.messages[i].content)
        /\ translated.messages[i].content[j].type = type
        /\ translated.messages[i].content[j].id = id}

\* C40: for an input with unique call ids, each function_call is exactly one
\* tool-call part of the output, and each function_call_output whose call id
\* has a function_call is exactly one tool-result part.
C40_ToolTrafficKeptOnce ==
    (translated # NoOutput /\ uniqueCallIds) =>
        \A id \in CallIds :
            /\ findCall(items, id) => Cardinality(partsOf("tool-call", id)) = 1
            /\ (findCall(items, id) /\ findOutput(items, id))
                  => Cardinality(partsOf("tool-result", id)) = 1

\* An output came before any call, and a call before its output: each call
\* and each output is in the output once.
C40_Witness ==
    /\ items = <<FunctionCallOutput("B"), FunctionCall("A"),
                 FunctionCall("B"), FunctionCallOutput("A")>>
    /\ translated # NoOutput
    /\ \A id \in CallIds :
          /\ Cardinality(partsOf("tool-call", id)) = 1
          /\ Cardinality(partsOf("tool-result", id)) = 1

(***************************************************************************)
(* The request decorator and the prefix stripping                          *)
(* (src/src/utils/request-processor.ts, src/unnamed/part_002).  A JSON     *)
(* object is the record of its fields; the decorator writes its keys in    *)
(* the same order on every pass, so two objects serialise to the same      *)
(* bytes when the records are equal.  A name is a number of "mcp_"         *)
(* prefixes before a base.                                                 *)
(***************************************************************************)
MaxTools == 2
MaxBlocks == 2
MaxMessages == 1

Name(pre, base) == [pre |-> pre, base |-> base]
\* A block that has no name field.
NoName == Name(0, "")

\* name?.startsWith(TOOL_PREFIX) ?? false
hasToolPrefix(name) == name.pre > 0

\* name ? `${TOOL_PREFIX}${name}` : name
prefixedName(name) ==
    IF name.pre > 0 \/ name.base # "" THEN [name EXCEPT !.pre = @ + 1] ELSE name

\* The substitution of "name": "mcp_X" by "name": "X", X being one character
\* or more.
strippedName(name) ==
    IF name.pre > 0 /\ (name.pre > 1 \/ name.base # "")
    THEN [name EXCEPT !.pre = @ - 1]
    ELSE name

CLAUDE_CODE_SYSTEM_PROMPT == "You are Claude Code, Anthropic's official CLI for Claude."

\* A tool: of the custom form or not, its name, its input_schema ("absent",
\* "untyped": neither type nor properties, "props": properties without a
\* type, "typed": a type without properties, "object": both,
\* "empty": {type, properties: {}}) and whether it carries cache_control.
Tool(custom, name, schema) ==
    [custom |-> custom, name |-> name, schema |-> schema, cache |-> FALSE]

DEFAULT_CLAUDE_CODE_TOOL == Tool(FALSE, Name(1, "placeholder"), "empty")

\* A content block of a message.
Block(type, name) == [type |-> type, name |-> name, cache |-> FALSE]

\* A message: its content is a string (kept as its one text block) or a list
\* of blocks.
NativeMessage(isString, blocks) == [isString |-> isString, blocks |-> blocks]

\* A system field: absent, a string (kept as its one block) or a list of blocks.
System(kind, texts) ==
    [kind |-> kind, blocks |-> [i \in 1..Len(texts) |-> [text |-> texts[i], cache |-> FALSE]]]

hasExactClaudeCodeSystemPrompt(system) ==
    /\ system.kind # "absent"
    /\ \E i \in 1..Len(system.blocks) : system.blocks[i].text = CLAUDE_CODE_SYSTEM_PROMPT

\* Step 1: the banner block goes before the system content.
processSystem(system, o) ==
    IF hasExactClaudeCodeSystemPrompt(system) THEN system
    ELSE [kind |-> "array",
          blocks |-> <<[text |-> CLAUDE_CODE_SYSTEM_PROMPT, cache |-> o.enablePromptCache]>>
                        \o system.blocks]

\* { type: "object", ...input_schema }
typedSchema(schema) ==
    IF schema = "untyped" THEN "typed" ELSE IF schema = "props" THEN "object" ELSE schema

processTool(tool, isLastTool, o) ==
    [custom |-> tool.custom,
     name |-> prefixedName(tool.name),
     schema |-> IF tool.schema = "absent"
                THEN IF tool.custom THEN "empty" ELSE "absent"
                ELSE typedSchema(tool.schema),
     cache |-> tool.cache \/ (o.enablePromptCache /\ isLastTool)]

\* Step 2: the tools are prefixed unless one of them has the prefix; without
\* tools the placeholder tool is added when the options ask for it.
processTools(tools, o) ==
    IF tools # <<>>
    THEN IF \E i \in 1..Len(tools) : hasToolPrefix(tools[i].name)
         THEN tools
         ELSE [i \in 1..Len(tools) |-> processTool(tools[i], i = Len(tools), o)]
    ELSE IF o.forceAddPlaceholderTool
         THEN <<[DEFAULT_CLAUDE_CODE_TOOL EXCEPT !.cache = o.enablePromptCache]>>
         ELSE tools

\* Step 3, one block: a tool_use name is prefixed, and that block is returned
\* at once; otherwise the last block of the last message gets the marker.
processBlock(block, isLastBlock, isLastMessage, shouldCache) ==
    IF block.type = "tool_use" /\ (block.name.pre > 0 \/ block.name.base # "")
          /\ ~hasToolPrefix(block.name)
    THEN [block EXCEPT !.name = prefixedName(@)]
    ELSE IF shouldCache /\ isLastMessage /\ isLastBlock
    THEN [block EXCEPT !.cache = TRUE]
    ELSE block

\* Step 3, one message (index from 1).
processMessage(msg, index, messageCount, o) ==
    LET cacheStartIndex ==
            IF messageCount - o.cacheMessageCount > 0
            THEN messageCount - o.cacheMessageCount ELSE 0
        shouldCache == o.enablePromptCache /\ index - 1 >= cacheStartIndex
    IN  IF ~msg.isString
        THEN [msg EXCEPT !.blocks =
                 [j \in 1..Len(msg.blocks) |->
                     processBlock(msg.blocks[j], j = Len(msg.blocks),
                                  index = messageCount, shouldCache)]]
        ELSE IF shouldCache
        THEN NativeMessage(FALSE, <<[msg.blocks[1] EXCEPT !.cache = TRUE]>>)
        ELSE msg

processClaudeCodeRequestBody(body, o) ==
    [system |-> processSystem(body.system, o),
     tools |-> processTools(body.tools, o),
     messages |-> [i \in 1..Len(body.messages) |->
                      processMessage(body.messages[i], i, Len(body.messages), o)]]

\* The substitution reaches every name field of the serialised text.
removeToolPrefixFromResponse(body) ==
    [system |-> body.system,
     tools |-> [i \in 1..Len(body.tools) |->
                   [body.tools[i] EXCEPT !.name = strippedName(@)]],
     messages |-> [i \in 1..Len(body.messages) |->
                      LET blocks == body.messages[i].blocks
                      IN  [body.messages[i] EXCEPT !.blocks =
                              [j \in 1..Len(blocks) |->
                                  [blocks[j] EXCEPT !.name = strippedName(@)]]]]]

\* The names a client gives its tools: plain, already beginning with the
\* prefix, and empty.
ToolNames == {Name(0, "x"), Name(1, "x"), Name(0, "")}

ToolForms ==
    {Tool(FALSE, n, sch) : n \in ToolNames, sch \in {"absent", "untyped", "props"}}
        \cup {Tool(TRUE, n, "absent") : n \in ToolNames}

BlockForms ==
    {Block("text", NoName), Block("tool_use", Name(0, "x")), Block("tool_use", Name(1, "x"))}

SeqsUpTo(S, n) == UNION {[1..k -> S] : k \in 0..n}

MessageForms ==
    {NativeMessage(TRUE, <<Block("text", NoName)>>)}
        \cup {NativeMessage(FALSE, b) : b \in SeqsUpTo(BlockForms, MaxBlocks) \ {<<>>}}

\* Four messages with string content: one more than cacheMessageCount.
FourMessages == [i \in 1..4 |-> NativeMessage(TRUE, <<Block("text", NoName)>>)]

\* A message with a block list before a last message with string content.
MixedMessages ==
    <<NativeMessage(FALSE, <<Block("text", NoName)>>),
      NativeMessage(TRUE, <<Block("text", NoName)>>)>>

SystemForms ==
    {System("absent", <<>>),
     System("string", <<"be brief">>),
     System("string", <<CLAUDE_CODE_SYSTEM_PROMPT>>),
     System("array", <<"be brief">>),
     System("array", <<"be brief", CLAUDE_CODE_SYSTEM_PROMPT>>)}

\* The options of the two callers: the messages handler (the defaults) and
\* createAuthenticatedFetch (no placeholder tool), with the cache on or off.
OptionForms ==
    {[DEFAULT_OPTIONS EXCEPT !.enablePromptCache = e, !.forceAddPlaceholderTool = f] :
        e \in BOOLEAN, f \in BOOLEAN}

\* The handler decorates the request body.
Decorate ==
    /\ reqBody # NoJson /\ once = NoJson
    /\ once' = processClaudeCodeRequestBody(reqBody, opts)
    /\ UNCHANGED <<reqBody, opts, twice, stripped>>

\* The decorator is applied to its own output, with the same options.
DecorateAgain ==
    /\ once # NoJson /\ twice = NoJson
    /\ twice' = processClaudeCodeRequestBody(once, opts)
    /\ UNCHANGED <<reqBody, opts, once, stripped>>

\* The serialised decorated body goes through the prefix stripping.
Strip ==
    /\ once # NoJson /\ stripped = NoJson
    /\ stripped' = removeToolPrefixFromResponse(once)
    /\ UNCHANGED <<reqBody, opts, once, twice>>

DecNext ==
    \/ Decorate /\ UNCHANGED notDec
    \/ DecorateAgain /\ UNCHANGED notDec
    \/ Strip /\ UNCHANGED notDec

DecoratorInit ==
    /\ SMInit
    /\ h = [r \in Reqs |-> IdleH]
    /\ UpIdle
    /\ TrIdle
    /\ RwIdle
    /\ RelayIdle
    /\ KeyIdle
    /\ SkIdle
    /\ WatchIdle
    /\ reqBody \in [system : SystemForms,
                    tools : SeqsUpTo(ToolForms, MaxTools),
                    messages : SeqsUpTo(MessageForms, MaxMessages)
                                  \cup {FourMessages, MixedMessages}]
    /\ opts \in OptionForms
    /\ once = NoJson
    /\ twice = NoJson
    /\ stripped = NoJson

DecoratorSpec == DecoratorInit /\ [][DecNext]_vars

\* C7: the decorator is idempotent: applied to its own output with the same
\* options it yields the same serialisation.
C7_DecoratorIdempotent == twice # NoJson => twice = once

\* C8: the prefix stripping applied to the decorated body gives back the
\* original value of every name field: of every tool and of every content
\* block of the messages.
C8_StripRestoresNames ==
    stripped # NoJson =>
        /\ \A i \in 1..Len(reqBody.tools) :
              stripped.tools[i].name = reqBody.tools[i].name
        /\ \A i \in 1..Len(reqBody.messages) :
              ~reqBody.messages[i].isString =>
                  \A j \in 1..Len(reqBody.messages[i].blocks) :
                      stripped.messages[i].blocks[j].name
                          = reqBody.messages[i].blocks[j].name

\* C25: after decoration of a body with tools, every tool's name begins with
\* the prefix, and every tool's input schema has type "object" and a
\* properties object.
C25_EveryToolPrefixedAndTyped ==
    (once # NoJson /\ reqBody.tools # <<>>) =>
        \A i \in 1..Len(once.tools) :
            /\ hasToolPrefix(once.tools[i].name)
            /\ once.tools[i].schema \in {"object", "empty"}

\* The texts of a list of system blocks.
textsOf(blocks) == [i \in 1..Len(blocks) |-> blocks[i].text]

\* C26: after decoration the first system block is the banner, and the
\* system content of the caller follows it, or is the whole of it when the
\* caller's own first block was the banner.
C26_BannerFirstContentKept ==
    once # NoJson =>
        LET got == textsOf(once.system.blocks)
            given == textsOf(reqBody.system.blocks)
        IN  /\ got # <<>> /\ got[1] = CLAUDE_CODE_SYSTEM_PROMPT
            /\ got = given \/ got = <<CLAUDE_CODE_SYSTEM_PROMPT>> \o given

\* C27: with prompt caching on, each of the last cacheMessageCount messages
\* has a block list whose last block carries the cache marker, and no
\* earlier message has a marker.
C27_LastMessagesMarked ==
    (once # NoJson /\ opts.enablePromptCache) =>
        \A i \in 1..Len(once.messages) :
            LET m == once.messages[i] IN
            IF i > Len(once.messages) - opts.cacheMessageCount
            THEN ~m.isString /\ m.blocks[Len(m.blocks)].cache
            ELSE \A j \in 1..Len(m.blocks) : ~m.blocks[j].cache

(***************************************************************************)
(* Stream rewriters: what each streaming handler enqueues on the response  *)
(* stream (src/unnamed/part_003, src/unnamed/part_005,                     *)
(* src/src/handlers/messages.ts).                                          *)
(***************************************************************************)
MaxParts == 3

\* The stream parts of result.fullStream; "other" stands for every part type
\* that no handler has a branch for.
PartTypes == {"text-delta", "tool-call", "error", "finish", "other"}

Frame(type, delta, reason, err, n, idx, item) ==
    [type |-> type, delta |-> delta, finish_reason |-> reason, error |-> err,
     sequence_number |-> n, output_index |-> idx, item |-> item]

\* A Chat-Completions chunk, and the terminator frame.
chatChunk(delta, reason, err) ==
    Frame("chat.completion.chunk", delta, reason, err, -1, -1, None)
DONE == Frame("[DONE]", None, None, FALSE, -1, -1, None)
\* A Responses event.
responsesEvent(type, n, idx, item) == Frame(type, None, None, type = "response.error", n, idx, item)
\* A chunk of the native stream, passed through.
nativeChunk == Frame("bytes", None, None, FALSE, -1, -1, None)

\* controller.enqueue of one Responses event numbered sequenceNumber++.
enqueueEvent(s, type, idx, item) ==
    [s EXCEPT !.out = Append(@, responsesEvent(type, s.sequenceNumber, idx, item)),
              !.sequenceNumber = @ + 1]

\* The Chat-Completions error text: an error chunk and the terminator.
chatSSEErrorResponse == <<chatChunk("empty", "error", TRUE), DONE>>

createSSEErrorResponse_FirstNumber(s) == responsesEvent("response.error", 0, -1, None)

\* The Responses error event, numbered sequenceNumber++.
createSSEErrorResponse(s) == responsesEvent("response.error", s.sequenceNumber, -1, None)

\* The onError callback of streamText, called when the stream has an error.
onError(s) == [s EXCEPT !.streamError = TRUE]

\* One turn of the loop over result.fullStream of the Chat-Completions handler.
chatPart(s, p) ==
    CASE p = "text-delta" ->
           [s EXCEPT !.out = Append(@, chatChunk("content", "null", FALSE))]
      [] p = "tool-call" ->
           [s EXCEPT !.out = Append(@, chatChunk("tool_calls", "null", FALSE)),
                     !.toolCalls = @ + 1]
      [] p = "error" ->
           [onError(s) EXCEPT !.out = @ \o chatSSEErrorResponse]
      [] p = "finish" ->
           LET finishReason == IF s.streamError THEN "error"
                               ELSE IF s.toolCalls > 0 THEN "tool_calls" ELSE "stop"
           IN  [s EXCEPT !.out = Append(@, chatChunk("empty", finishReason, s.streamError))]
      [] OTHER -> s

isFirstTextDelta_Always(s) == TRUE

\* "if (!hasTextContent)": no text delta was seen before.
isFirstTextDelta(s) == ~s.hasTextContent

\* One turn of the loop over result.fullStream of the Responses handler.
\* The output[] of response.completed: the message, when there was text,
\* and then the tool calls in the order they were pushed.
finalOutput(s) ==
    (IF s.hasTextContent THEN <<"message">> ELSE <<>>)
        \o [k \in 1..s.toolCalls |-> "function_call"]

responsesPart(s, p) ==
    LET outputIndex == 0 IN
    CASE p = "text-delta" ->
           LET first == enqueueEvent(
                          enqueueEvent([s EXCEPT !.hasTextContent = TRUE],
                                       "response.output_item.added", outputIndex, "message"),
                          "response.content_part.added", outputIndex, None)
           IN  enqueueEvent(IF isFirstTextDelta(s) THEN first ELSE s,
                            "response.output_text.delta", outputIndex, None)
      [] p = "tool-call" ->
           LET toolOutputIndex == IF s.hasTextContent
                                  THEN outputIndex + 1 + s.toolCalls
                                  ELSE outputIndex + s.toolCalls
               pushed == [s EXCEPT !.toolCalls = @ + 1]
           IN  enqueueEvent(
                 enqueueEvent(
                   enqueueEvent(pushed, "response.output_item.added",
                                toolOutputIndex, "function_call"),
                   "response.function_call_arguments.done", toolOutputIndex, None),
                 "response.output_item.done", toolOutputIndex, "function_call")
      [] p = "finish" ->
           LET closed == enqueueEvent(
                           enqueueEvent(s, "response.content_part.done", outputIndex, None),
                           "response.output_item.done", outputIndex, "message")
           IN  enqueueEvent(IF s.hasTextContent THEN closed ELSE s,
                            "response.completed", -1, finalOutput(s))
      [] OTHER -> s

\* The catch block around the loop: enqueue the error text and close; when
\* that throws, because the stream is no longer readable, controller.error,
\* which leaves such a stream as it is.
catchError(s) ==
    IF s.pc = "readable"
    THEN [s EXCEPT !.out = IF s.kind = "chat" THEN @ \o chatSSEErrorResponse
                            ELSE Append(@, createSSEErrorResponse(s)),
                   !.sequenceNumber = IF s.kind = "chat" THEN @ ELSE @ + 1,
                   !.pc = "closed", !.running = FALSE, !.failed = TRUE]
    ELSE [s EXCEPT !.running = FALSE, !.failed = TRUE]

\* streamText returns, or throws: the handler answers with a stream of its
\* own that carries the error text and is closed at once.  The native handler
\* wraps the upstream body.
StreamOpen(ok) ==
    /\ rw.pc = "new"
    /\ ok \/ rw.kind # "messages"
    /\ rw' = IF ~ok
             THEN [rw EXCEPT !.out = IF rw.kind = "chat" THEN chatSSEErrorResponse
                                     ELSE <<createSSEErrorResponse(rw)>>,
                             !.sequenceNumber = IF rw.kind = "chat" THEN @ ELSE @ + 1,
                             !.pc = "closed", !.failed = TRUE]
             ELSE IF rw.kind = "responses"
             THEN enqueueEvent([rw EXCEPT !.pc = "readable", !.running = TRUE],
                               "response.created", -1, None)
             ELSE [rw EXCEPT !.pc = "readable", !.running = TRUE]

\* result.fullStream yields a part.  On a stream the client has cancelled,
\* the first controller.enqueue throws.
OnPart(p) ==
    /\ rw.running /\ rw.kind # "messages"
    /\ rw.parts < MaxParts
    /\ LET s == [rw EXCEPT !.parts = @ + 1,
                           !.errorParts = IF p = "error" THEN @ + 1 ELSE @]
           t == IF rw.kind = "chat" THEN chatPart(s, p) ELSE responsesPart(s, p)
       IN  rw' = IF t.out = s.out \/ rw.pc = "readable" THEN t ELSE catchError(s)

\* The iteration of result.fullStream, or "await result.usage", throws.
OnThrow ==
    /\ rw.running /\ rw.kind # "messages"
    /\ rw' = catchError(rw)

\* result.fullStream is exhausted: the Chat-Completions handler enqueues the
\* terminator, both handlers close.
OnEnd ==
    /\ rw.running /\ rw.kind # "messages"
    /\ rw' = IF rw.pc # "readable" THEN catchError(rw)
             ELSE [rw EXCEPT !.out = IF rw.kind = "chat" THEN Append(@, DONE) ELSE @,
                             !.pc = "closed", !.running = FALSE]

\* pull of the native handler: reader.read() gives a chunk, or the end, or
\* rejects; nothing catches the rejection, so pull rejects with it and the
\* response stream is errored.
Pull(outcome) ==
    /\ rw.running /\ rw.kind = "messages" /\ rw.pc = "readable"
    /\ CASE outcome = "chunk" ->
              /\ rw.parts < MaxParts
              /\ rw' = [rw EXCEPT !.out = Append(@, nativeChunk), !.parts = @ + 1]
         [] outcome = "done" ->
              rw' = [rw EXCEPT !.pc = "closed", !.running = FALSE]
         [] OTHER ->
              rw' = [rw EXCEPT !.pc = "errored", !.running = FALSE, !.failed = TRUE]

\* The client goes away: the response stream is cancelled.  Only the native
\* handler has a cancel callback; the loops of the other two go on.
ClientCancel ==
    /\ rw.pc = "readable"
    /\ rw' = [rw EXCEPT !.pc = "cancelled",
                        !.running = IF rw.kind = "messages" THEN FALSE ELSE @]

RwNext ==
    \/ \E ok \in BOOLEAN : StreamOpen(ok) /\ UNCHANGED notRw
    \/ \E p \in PartTypes : OnPart(p) /\ UNCHANGED notRw
    \/ OnThrow /\ UNCHANGED notRw
    \/ OnEnd /\ UNCHANGED notRw
    \/ \E o \in {"chunk", "done", "error"} : Pull(o) /\ UNCHANGED notRw
    \/ ClientCancel /\ UNCHANGED notRw

RewriterInit ==
    /\ SMInit
    /\ h = [r \in Reqs |-> IdleH]
    /\ UpIdle
    /\ TrIdle
    /\ DecIdle
    /\ RelayIdle
    /\ KeyIdle
    /\ SkIdle
    /\ WatchIdle
    /\ rw \in {[IdleRw EXCEPT !.kind = k] : k \in Kinds}

RewriterSpec == RewriterInit /\ [][RwNext]_vars

\* C13: in every Responses-format stream the k-th emitted event carries
\* sequence_number k-1, on every path.
C13_SequenceNumbersCount ==
    rw.kind = "responses" =>
        \A k \in 1..Len(rw.out) : rw.out[k].sequence_number = k - 1

\* A mixed Responses stream (text and a tool call) that fails after some
\* events and carries the error event last.
C13_Witness ==
    /\ rw.kind = "responses" /\ rw.pc = "closed" /\ rw.failed
    /\ rw.hasTextContent /\ rw.toolCalls > 0
    /\ rw.out[Len(rw.out)].type = "response.error"

isDone(f) == f.type = "[DONE]"

\* C14: a Chat-Completions stream never has a frame after "data: [DONE]",
\* and once closed it has that frame exactly once, as its last frame.
C14_DoneOnceAndLast ==
    rw.kind = "chat" =>
        /\ \A k \in 1..Len(rw.out) : isDone(rw.out[k]) => k = Len(rw.out)
        /\ rw.pc = "closed" => Len(rw.out) > 0 /\ isDone(rw.out[Len(rw.out)])

isErrorShape(kind, f) ==
    IF kind = "chat" THEN f.type = "chat.completion.chunk" /\ f.finish_reason = "error" /\ f.error
    ELSE f.type = "response.error"

\* C15: when a stream-level error part was surfaced to a rewriter whose
\* stream the client still reads, the output has the protocol's error-shape
\* event.
C15_ErrorPartGivesErrorEvent ==
    (rw.kind # "messages" /\ rw.errorParts > 0 /\ rw.pc \in {"readable", "closed"}) =>
        \E k \in 1..Len(rw.out) : isErrorShape(rw.kind, rw.out[k])

\* C16: an opened response stream is never left errored, and after a failure
\* it is closed, unless the client cancelled it.
C16_FailureClosesNormally ==
    /\ rw.pc # "errored"
    /\ (rw.failed /\ rw.pc # "cancelled") => rw.pc = "closed"

(***************************************************************************)
(* The relay of a streamed upstream body (src/src/handlers/messages.ts,   *)
(* createAuthenticatedFetch in src/src/utils/request-processor.ts): each   *)
(* chunk read is decoded, passed through removeToolPrefixFromResponse and  *)
(* enqueued.  A text is a sequence of characters: "q" is the double quote, *)
(* "s" a white-space character, ":" the colon, "x" any other character;    *)
(* "N" stands for the four letters name and "P" for the four characters    *)
(* mcp_, which the model never splits.                                     *)
(***************************************************************************)
MaxPieces == 2

\* The texts an upstream body is made of: a prefixed tool name as the
\* upstream writes it, with and without a blank after the colon, a tool
\* name without prefix, and other text.
Pieces ==
    { <<"q", "N", "q", ":", "q", "P", "x", "q">>,
      <<"q", "N", "q", ":", "s", "q", "P", "x", "q">>,
      <<"q", "N", "q", ":", "q", "x", "q">>,
      <<"x">> }

RECURSIVE TextsOf(_)
TextsOf(n) ==
    IF n = 0 THEN {<<>>}
    ELSE LET shorter == TextsOf(n - 1)
         IN  shorter \cup {t \o p : t \in {u \in shorter : Len(u) > 0 \/ n = 1}, p \in Pieces}

UpstreamTexts == TextsOf(MaxPieces) \ {<<>>}

\* The first index from i on that holds no white space (\s*).
RECURSIVE skipSpaces(_, _)
skipSpaces(t, i) == IF i <= Len(t) /\ t[i] = "s" THEN skipSpaces(t, i + 1) ELSE i

\* The first index from i on that holds a double quote, or 0 ([^"]+ is greedy
\* and stops at the first quote).
RECURSIVE nextQuote(_, _)
nextQuote(t, i) ==
    IF i > Len(t) THEN 0 ELSE IF t[i] = "q" THEN i ELSE nextQuote(t, i + 1)

\* The match of /"name"\s*:\s*"mcp_([^"]+)"/ that starts at i: where its
\* group starts and where the match ends, or <<0, 0>>.
matchAt(t, i) ==
    LET j == skipSpaces(t, i + 3)
        k == skipSpaces(t, j + 1)
        m == nextQuote(t, k + 2)
    IN  IF /\ i + 2 <= Len(t) /\ t[i] = "q" /\ t[i + 1] = "N" /\ t[i + 2] = "q"
           /\ j <= Len(t) /\ t[j] = ":"
           /\ k + 1 <= Len(t) /\ t[k] = "q" /\ t[k + 1] = "P"
           /\ m > k + 2
        THEN <<k + 2, m>>
        ELSE <<0, 0>>

\* String.replace with the global flag, from index i on: every match, from
\* left to right, becomes "name": "$1".
RECURSIVE replaceFrom(_, _)
replaceFrom(t, i) ==
    IF i > Len(t) THEN <<>>
    ELSE LET g == matchAt(t, i)
         IN  IF g[2] = 0
             THEN <<t[i]>> \o replaceFrom(t, i + 1)
             ELSE <<"q", "N", "q", ":", "s", "q">> \o SubSeq(t, g[1], g[2] - 1)
                    \o <<"q">> \o replaceFrom(t, g[2] + 1)

\* removeToolPrefixFromResponse on a text.
removeToolPrefixFromText(text) == replaceFrom(text, 1)

\* pull: reader.read() gives the next n characters of the upstream body; the
\* chunk is stripped on its own and enqueued.
RelayChunk(n) ==
    /\ relay.pc = "reading"
    /\ n <= Len(relay.rest)
    /\ relay' = [relay EXCEPT
                    !.sent = @ \o removeToolPrefixFromText(SubSeq(relay.rest, 1, n)),
                    !.rest = SubSeq(@, n + 1, Len(@))]

\* pull: reader.read() reports the end of the upstream body.
RelayDone ==
    /\ relay.pc = "reading"
    /\ relay.rest = <<>>
    /\ relay' = [relay EXCEPT !.pc = "closed"]

RelayNext ==
    \/ \E n \in 1..Len(relay.rest) : RelayChunk(n) /\ UNCHANGED notRelay
    \/ RelayDone /\ UNCHANGED notRelay

RelayInit ==
    /\ SMInit
    /\ h = [r \in Reqs |-> IdleH]
    /\ UpIdle
    /\ TrIdle
    /\ DecIdle
    /\ RwIdle
    /\ KeyIdle
    /\ SkIdle
    /\ WatchIdle
    /\ relay \in {[pc |-> "reading", text |-> t, rest |-> t, sent |-> <<>>] : t \in UpstreamTexts}

RelaySpec == RelayInit /\ [][RelayNext]_vars

\* C17: however the upstream text is split into chunks, what was sent to the
\* client when the stream closes is the prefix-stripped whole upstream text.
C17_ChunkedEqualsWhole ==
    relay.pc = "closed" => relay.sent = removeToolPrefixFromText(relay.text)

(***************************************************************************)
(* The local API key: the key file (src/src/storage.ts), its watcher       *)
(* (src/src/config-watcher.ts), the router's flag (startServer in          *)
(* src/unnamed/part_007) and the middleware                                *)
(* (src/src/middleware/api-key.ts).                                        *)
(***************************************************************************)
MaxKeys == 2

ApiKeys == 1..MaxKeys
\* No key: a header that is absent, or null.
NoKey == 0
\* ApiKeyData.
KeyRecord(k) == [key |-> k]

\* loadApiKey: the record, or null when the file is absent or does not parse.
loadApiKey(file) == IF file = NoFile \/ file = EmptyFile THEN NoFile ELSE file

validateApiKey_AnyKey(file, key) == loadApiKey(file) # NoFile

\* validateApiKey reads the key file anew.
validateApiKey(file, key) ==
    LET stored == loadApiKey(file)
    IN  IF stored = NoFile THEN FALSE ELSE stored.key = key

\* The Authorization header: absent, or a scheme and a credential.
NoHeader == <<>>
AuthHeaders == {NoHeader} \cup {<<s, k>> : s \in {"Bearer", "Basic"}, k \in ApiKeys}
Routes == {"/v1", "/health"}

\* The key the middleware takes from the headers: the Bearer credential, else
\* x-api-key, else null.
providedKey(authHeader, xApiKey) ==
    LET match == IF authHeader # NoHeader /\ authHeader[1] = "Bearer"
                 THEN authHeader[2] ELSE NoKey
    IN  IF match # NoKey THEN match ELSE xApiKey

\* A file-system event on the key file (re)starts the debounce timer.
debouncedApiKeyChange == apiKeyTimer' = TRUE

\* saveApiKey: writeFile creates or truncates the file ...
KeyFileOpen ==
    /\ keyFile' = EmptyFile
    /\ debouncedApiKeyChange
    /\ UNCHANGED <<currentApiKey, apiKeyRequired, gate>>

\* ... and writes the record.
KeyFileWrite(k) ==
    /\ keyFile = EmptyFile
    /\ keyFile' = KeyRecord(k)
    /\ debouncedApiKeyChange
    /\ UNCHANGED <<currentApiKey, apiKeyRequired, gate>>

\* clearApiKey: the file is unlinked.
KeyFileDelete ==
    /\ keyFile # NoFile
    /\ keyFile' = NoFile
    /\ debouncedApiKeyChange
    /\ UNCHANGED <<currentApiKey, apiKeyRequired, gate>>

\* The timer fires: handleApiKeyChange reloads the file and, when the record
\* differs from the cached one, calls the router's callback.
handleApiKeyChange ==
    /\ apiKeyTimer
    /\ LET newApiKey == loadApiKey(keyFile)
       IN  IF newApiKey # currentApiKey
           THEN /\ currentApiKey' = newApiKey
                /\ apiKeyRequired' = (newApiKey # NoFile)
           ELSE UNCHANGED <<currentApiKey, apiKeyRequired>>
    /\ apiKeyTimer' = FALSE
    /\ UNCHANGED <<keyFile, gate>>

\* A request arrives.  /health has no middleware.  On /v1/* the middleware is
\* created with the flag's value: it calls next() when the flag is off,
\* answers 401 when no key is provided, and else goes to validate the key.
GateArrive(route, authHeader, xApiKey) ==
    /\ gate.pc \in {"idle", "done"}
    /\ LET provided == providedKey(authHeader, xApiKey)
           checked == route = "/v1" /\ apiKeyRequired
       IN  gate' = [pc |-> IF checked /\ provided # NoKey THEN "validate" ELSE "done",
                    route |-> route, authHeader |-> authHeader, xApiKey |-> xApiKey,
                    provided |-> provided, required |-> apiKeyRequired,
                    fileAtStart |-> keyFile, fileAtEnd |-> keyFile,
                    outcome |-> IF ~checked THEN "handler"
                                ELSE IF provided = NoKey THEN "401" ELSE None]
    /\ UNCHANGED <<keyFile, currentApiKey, apiKeyRequired, apiKeyTimer>>

\* await validateApiKey(providedKey), and the answer.
GateValidate ==
    /\ gate.pc = "validate"
    /\ gate' = [gate EXCEPT !.pc = "done", !.fileAtEnd = keyFile,
                            !.outcome = IF validateApiKey(keyFile, gate.provided)
                                        THEN "handler" ELSE "401"]
    /\ UNCHANGED <<keyFile, currentApiKey, apiKeyRequired, apiKeyTimer>>

KeyNext ==
    \/ KeyFileOpen /\ UNCHANGED notKey
    \/ \E k \in ApiKeys : KeyFileWrite(k) /\ UNCHANGED notKey
    \/ KeyFileDelete /\ UNCHANGED notKey
    \/ handleApiKeyChange /\ UNCHANGED notKey
    \/ \E route \in Routes, a \in AuthHeaders, x \in ApiKeys \cup {NoKey} :
          GateArrive(route, a, x) /\ UNCHANGED notKey
    \/ GateValidate /\ UNCHANGED notKey

\* startServer: startConfigWatcher loads the key record, onApiKeyChange calls
\* the callback with it at once.
KeyInit ==
    /\ SMInit
    /\ h = [r \in Reqs |-> IdleH]
    /\ UpIdle
    /\ TrIdle
    /\ DecIdle
    /\ RwIdle
    /\ RelayIdle
    /\ SkIdle
    /\ WatchIdle
    /\ keyFile \in {NoFile} \cup {KeyRecord(k) : k \in ApiKeys}
    /\ currentApiKey = loadApiKey(keyFile)
    /\ apiKeyRequired = (currentApiKey # NoFile)
    /\ apiKeyTimer = FALSE
    /\ gate = IdleGate

KeySpec == KeyInit /\ [][KeyNext]_vars

\* The request presents key k via Authorization: Bearer or via x-api-key.
presents(g, k) == g.authHeader = <<"Bearer", k>> \/ g.xApiKey = k

\* The answer to request g is the one the key record `file` asks for.
answersFor(g, file) ==
    LET stored == loadApiKey(file)
    IN  IF g.route = "/health" \/ stored = NoFile
        THEN g.outcome = "handler"
        ELSE /\ g.outcome \in {"handler", "401"}
             /\ g.outcome = "handler" => presents(g, stored.key)

settled(g) ==
    /\ g.required = (loadApiKey(g.fileAtStart) # NoFile)
    /\ g.fileAtStart = g.fileAtEnd

MaxCount == 2
MaxSessionIds == 2

\* The explicit session ids a body may carry; 0: none.
ExplicitIds == 0..MaxSessionIds

KeyedBodies ==
    {Body(shape, n, first, rest, sid, msid) :
        shape \in {"messages", "input"}, n \in 1..MaxCount, first \in {"m1", "m2"},
        rest \in {"x", "y"}, sid \in ExplicitIds, msid \in {0, 1}}

\* What the handler of an endpoint passes to extractSessionId: the native
\* handler the parsed body, the other two an object with the one list they
\* read (messages, input), which is undefined when the body has the other.
sessionBody(kind, body) ==
    IF kind = "messages" THEN body
    ELSE IF body.shape = (IF kind = "chat" THEN "messages" ELSE "input")
    THEN Body(body.shape, body.n, body.first, "", 0, 0)
    ELSE Body(body.shape, 0, "", "", 0, 0)

\* The handler derives the session key of both bodies.
ExtractKeys ==
    /\ keys = <<>>
    /\ keys' = <<extractSessionId(sessionBody(pair.kind, pair.a)),
                 extractSessionId(sessionBody(pair.kind, pair.b))>>
    /\ UNCHANGED pair

SkNext == ExtractKeys /\ UNCHANGED notSk

SessionKeyInit ==
    /\ SMInit
    /\ h = [r \in Reqs |-> IdleH]
    /\ UpIdle
    /\ TrIdle
    /\ DecIdle
    /\ RwIdle
    /\ RelayIdle
    /\ KeyIdle
    /\ WatchIdle
    /\ pair \in [kind : Kinds, a : KeyedBodies, b : KeyedBodies]
    /\ keys = <<>>

SessionKeySpec == SessionKeyInit /\ [][SkNext]_vars

\* Both bodies carry the same list, of the same length and with the same
\* first element.
sameFirstAndCount ==
    /\ pair.a.shape = pair.b.shape
    /\ pair.a.n = pair.b.n
    /\ pair.a.first = pair.b.first

\* C19: two bodies with identical first-message content and identical
\* message count get equal session keys.
C19_SameFirstAndCountSameKey ==
    (keys # <<>> /\ sameFirstAndCount) => keys[1] = keys[2]

\* The explicit session id of a body: session_id, else metadata.session_id.
explicitId(body) ==
    IF body.session_id # 0 THEN body.session_id ELSE body.metadata_session_id

\* C19, amended: two bodies with identical first message and identical
\* message count get equal session keys on the chat-completions and
\* responses endpoints, and on the native endpoint when their explicit
\* session ids are equal or both absent.
C19_SameKeyUnlessExplicitId ==
    (/\ keys # <<>> /\ sameFirstAndCount
     /\ pair.kind = "messages" => explicitId(pair.a) = explicitId(pair.b))
        => keys[1] = keys[2]

\* Two different native bodies without explicit session id, with the same
\* first message and count, got the same key.
C19_Witness ==
    /\ keys # <<>> /\ sameFirstAndCount
    /\ pair.kind = "messages" /\ pair.a # pair.b
    /\ explicitId(pair.a) = 0 /\ explicitId(pair.b) = 0
    /\ keys[1] = keys[2]

\* Both bodies are turns of one conversation on the endpoint: they carry the
\* list the endpoint reads, with the same first element, and the same
\* explicit session ids.
sameConversation ==
    /\ pair.a.shape = pair.b.shape
    /\ pair.a.first = pair.b.first
    /\ pair.a.session_id = pair.b.session_id
    /\ pair.a.metadata_session_id = pair.b.metadata_session_id
    /\ pair.kind = "chat" => pair.a.shape = "messages"
    /\ pair.kind = "responses" => pair.a.shape = "input"

\* The answer to the second body's startRequest while the first body's
\* request, admitted at the same instant on empty tables, is in flight.
secondBegin ==
    LET act == [s \in {keys[1], keys[2]} |-> NoEntry]
        ded == [k \in {computeHash(pair.a), computeHash(pair.b)} |-> NoEntry]
        one == startRequest(act, ded, keys[1], pair.a, 0)
    IN  startRequest(one.active, one.dedupe, keys[2], pair.b, 0)

\* C31: two requests of one conversation whose lists differ in length get
\* different session keys, and the later one is not rejected as busy while
\* the earlier one is in flight.
C31_DifferentLengthDifferentKey ==
    (keys # <<>> /\ sameConversation /\ pair.a.n # pair.b.n) =>
        /\ keys[1] # keys[2]
        /\ secondBegin.reason # "busy"

\* C31, amended: two requests of one conversation whose lists differ in
\* length get different session keys, and the later one is not rejected as
\* busy while the earlier is in flight, on the chat-completions and
\* responses endpoints, and on the native endpoint when the bodies carry no
\* explicit session id.
C31_DifferentKeyUnlessExplicitId ==
    (/\ keys # <<>> /\ sameConversation /\ pair.a.n # pair.b.n
     /\ pair.kind = "messages" => explicitId(pair.a) = 0)
        => /\ keys[1] # keys[2]
           /\ secondBegin.accepted

\* Two native turns of one conversation without explicit session id, of
\* different lengths: the second is admitted while the first is in flight.
C31_Witness ==
    /\ keys # <<>> /\ sameConversation /\ pair.a.n # pair.b.n
    /\ pair.kind = "messages" /\ explicitId(pair.a) = 0
    /\ keys[1] # keys[2]
    /\ secondBegin.accepted

\* C22: once the client has disconnected, no further part or chunk is read
\* from the upstream.
C22_NoReadAfterDisconnect ==
    [][rw.pc = "cancelled" => rw'.parts = rw.parts]_vars

\* The positions of the events of one type in the output.
positionsOf(type) == {k \in 1..Len(rw.out) : rw.out[k].type = type}
messageAdded ==
    {k \in positionsOf("response.output_item.added") : rw.out[k].item = "message"}
textDeltas == positionsOf("response.output_text.delta")

\* C23: in a Responses stream the two message-creation events occur exactly
\* once, right before the first text delta, and not at all without a text
\* delta.
C23_MessageCreatedLazily ==
    rw.kind = "responses" =>
        IF textDeltas = {}
        THEN messageAdded = {} /\ positionsOf("response.content_part.added") = {}
        ELSE LET d == CHOOSE k \in textDeltas : \A j \in textDeltas : k <= j
             IN  /\ messageAdded = {d - 2}
                 /\ positionsOf("response.content_part.added") = {d - 1}

\* A closed Responses stream with a tool call before its text and two text
\* deltas.
C23_Witness ==
    /\ rw.kind = "responses" /\ rw.pc = "closed" /\ ~rw.failed
    /\ Cardinality(textDeltas) = 2
    /\ rw.toolCalls = 1
    /\ \E k \in positionsOf("response.function_call_arguments.done") :
          \A d \in textDeltas : k < d

\* The chunks that carry a finish_reason.
finishChunks ==
    {k \in 1..Len(rw.out) :
        rw.out[k].type = "chat.completion.chunk" /\ rw.out[k].finish_reason # "null"}

\* C24: a closed Chat-Completions stream has exactly one chunk with a
\* finish_reason: "error" if an error occurred in the stream, else
\* "tool_calls" if a tool call was emitted, else "stop".
C24_OneFinishReason ==
    (rw.kind = "chat" /\ rw.pc = "closed") =>
        /\ Cardinality(finishChunks) = 1
        /\ \A k \in finishChunks :
              rw.out[k].finish_reason =
                  IF rw.failed \/ rw.errorParts > 0 THEN "error"
                  ELSE IF rw.toolCalls > 0 THEN "tool_calls" ELSE "stop"

(***************************************************************************)
(* The one session manager shared by the endpoints: each handler derives   *)
(* the session key from what it passes to extractSessionId and calls       *)
(* startRequest with the whole body.                                       *)
(***************************************************************************)
\* Bodies that both /v1/messages and /v1/chat/completions accept: a message
\* list, without and with an explicit session_id.
EndpointBodies == {Body("messages", 1, "m1", "x", 0, 0),
                   Body("messages", 1, "m1", "y", 1, 0)}
EndpointKinds == {"messages", "chat"}

\* The session key the handler of h[r].kind uses for its request.
keyOf(r) == extractSessionId(sessionBody(h[r].kind, req[r].body))

\* The handler of endpoint k receives body b and calls startRequest.
EndpointBegin(r, k, b) ==
    /\ req[r].st = "idle"
    /\ \A q \in Reqs : q < r => req[q].st # "idle"
    /\ LET sid == extractSessionId(sessionBody(k, b))
           res == startRequest(activeRequests, dedupeCache, sid, b, now)
       IN /\ activeRequests' = res.active
          /\ dedupeCache' = res.dedupe
          /\ req' = [req EXCEPT ![r] =
                        [st |-> IF res.accepted THEN "admitted" ELSE "rejected",
                         body |-> b, reason |-> res.reason,
                         start |-> IF res.accepted THEN now ELSE 0, late |-> FALSE,
                         dupAtBegin |-> isDuplicateRequest(dedupeCache, b, now),
                         busyAtBegin |-> activeRequests[sid] # NoEntry]]
    /\ h' = [h EXCEPT ![r].kind = k, ![r].sid = TRUE,
                      ![r].pc = IF req'[r].st = "rejected" THEN "done" ELSE "prepare",
                      ![r].status = IF req'[r].st = "rejected" THEN "429" ELSE None]
    /\ UNCHANGED <<now, nticks>>

\* The handler of an admitted request calls endRequest with its session key.
EndpointEnd(r) ==
    /\ req[r].st = "admitted"
    /\ LET res == endRequest(activeRequests, dedupeCache, keyOf(r))
       IN /\ activeRequests' = res.active
          /\ dedupeCache' = res.dedupe
    /\ req' = [req EXCEPT ![r].st = "ended", ![r].start = 0,
                           ![r].late = now - req[r].start > requestTimeoutMs]
    /\ h' = [h EXCEPT ![r].pc = "done", ![r].ends = @ + 1]
    /\ UNCHANGED <<now, nticks>>

EndpointNext ==
    \/ \E r \in Reqs, k \in EndpointKinds, b \in EndpointBodies :
          EndpointBegin(r, k, b) /\ UNCHANGED xVars
    \/ \E r \in Reqs : EndpointEnd(r) /\ UNCHANGED xVars
    \/ Cleanup /\ UNCHANGED <<h, xVars>>
    \/ Tick /\ UNCHANGED <<h, xVars>>

EndpointInit ==
    /\ now = 0
    /\ nticks = 0
    /\ activeRequests =
          [s \in {extractSessionId(sessionBody(k, b)) :
                     k \in EndpointKinds, b \in EndpointBodies} |-> NoEntry]
    /\ dedupeCache = [x \in {computeHash(b) : b \in EndpointBodies} |-> NoEntry]
    /\ req = [r \in Reqs |-> IdleReq]
    /\ h = [r \in Reqs |-> IdleH]
    /\ UpIdle
    /\ TrIdle
    /\ DecIdle
    /\ RwIdle
    /\ RelayIdle
    /\ KeyIdle
    /\ SkIdle
    /\ WatchIdle

EndpointSpec == EndpointInit /\ [][EndpointNext]_vars

(***************************************************************************)
(* The Chat-Completions message translator (src/unnamed/part_009):         *)
(* convertChatMessagesToAISDK.  A chat message has a role, a text content, *)
(* the call ids of its tool_calls and, for the tool role, its              *)
(* tool_call_id.                                                           *)
(***************************************************************************)
MaxChatMessages == 4

ChatMessage(role, text, tool_calls, tool_call_id) ==
    [role |-> role, text |-> text, tool_calls |-> tool_calls,
     tool_call_id |-> tool_call_id]

\* The messages a client may send: system, user (one with empty content),
\* assistant with text, with calls, with neither, the results of the calls,
\* and a message of a role the translator does not know.
ChatMessages ==
    {ChatMessage("system", "rules", <<>>, ""), ChatMessage("user", "hi", <<>>, ""),
     ChatMessage("user", "", <<>>, ""), ChatMessage("assistant", "planning", <<>>, ""),
     ChatMessage("assistant", " ", <<>>, ""), ChatMessage("assistant", "", <<"A">>, ""),
     ChatMessage("assistant", "", <<"A", "B">>, ""), ChatMessage("function", "", <<>>, "")}
        \cup {ChatMessage("tool", "", <<>>, c) : c \in CallIds}

\* The first pass: the call ids of all assistant tool_calls (toolCallInfo).
toolCallInfo(messages) ==
    UNION {Range(messages[i].tool_calls) :
              i \in {k \in 1..Len(messages) : messages[k].role = "assistant"}}

toolMessage_AlwaysNew(converted, toolResult) ==
    Append(converted, Message("tool", <<toolResult>>))

\* A tool message: its result joins the tool message at the end of the
\* converted list, or becomes a new tool message.
toolMessage(converted, toolResult) ==
    LET n == Len(converted) IN
    IF n > 0 /\ converted[n].role = "tool"
    THEN [converted EXCEPT ![n].content = Append(@, toolResult)]
    ELSE Append(converted, Message("tool", <<toolResult>>))

\* The second pass over the messages, from message k on.
RECURSIVE chatWalk(_, _, _)
chatWalk(messages, k, st) ==
    IF k > Len(messages) THEN st
    ELSE LET msg == messages[k]
             contentParts ==
                 (IF Blank(msg.text) THEN <<>> ELSE <<TextPart(msg.text)>>)
                     \o toolCallParts(msg.tool_calls)
             toolName == IF msg.tool_call_id \in toolCallInfo(messages)
                         THEN msg.tool_call_id ELSE "unknown"
         IN  chatWalk(messages, k + 1,
                 IF msg.role = "system"
                 THEN IF Blank(msg.text) THEN st
                      ELSE [st EXCEPT !.system = Append(@, msg.text)]
                 ELSE IF msg.role = "user"
                 THEN IF msg.text = "" THEN st
                      ELSE [st EXCEPT !.messages =
                                          Append(@, Message("user", <<TextPart(msg.text)>>))]
                 ELSE IF msg.role = "assistant"
                 THEN [st EXCEPT !.messages = pushIf(@, "assistant", contentParts)]
                 ELSE IF msg.role = "tool"
                 THEN [st EXCEPT !.messages =
                          toolMessage(@, ToolResultPart(msg.tool_call_id, toolName))]
                 ELSE st)

convertChatMessagesToAISDK(messages) ==
    chatWalk(messages, 1, [messages |-> <<>>, system |-> <<>>])

\* The handler converts the messages of the request.
ConvertChat ==
    /\ translated = NoOutput
    /\ translated' = convertChatMessagesToAISDK(items)
    /\ UNCHANGED items

ChatTrNext == ConvertChat /\ UNCHANGED notTr

ChatTranslatorInit ==
    /\ SMInit
    /\ h = [r \in Reqs |-> IdleH]
    /\ UpIdle
    /\ DecIdle
    /\ RwIdle
    /\ RelayIdle
    /\ KeyIdle
    /\ SkIdle
    /\ WatchIdle
    /\ items \in SeqsUpTo(ChatMessages, MaxChatMessages)
    /\ translated = NoOutput

ChatTranslatorSpec == ChatTranslatorInit /\ [][ChatTrNext]_vars

\* The tool_call_ids of the tool messages of the input, in input order.
toolIdsIn ==
    LET tools == SelectSeq(items, LAMBDA m : m.role = "tool")
    IN  [i \in 1..Len(tools) |-> tools[i].tool_call_id]

\* For each tool-result of the output, in output order: its call id, and the
\* index of the message that holds it.
RECURSIVE resultsOut(_, _)
resultsOut(messages, i) ==
    IF i > Len(messages) THEN <<>>
    ELSE (IF messages[i].role = "tool"
          THEN [j \in 1..Len(messages[i].content) |->
                   [id |-> messages[i].content[j].id, at |-> i]]
          ELSE <<>>) \o resultsOut(messages, i + 1)

\* The number of tool messages among the first k of the input.
toolRank(k) == Cardinality({i \in 1..k : items[i].role = "tool"})

\* C32: the output has no two adjacent tool messages; the tool-results of
\* the output are those of the input's tool messages, in input order; and two
\* consecutive tool messages of the input are in one tool message of the
\* output.
C32_ToolRunsMerged ==
    translated # NoOutput =>
        LET out == resultsOut(translated.messages, 1) IN
        /\ \A i \in 1..(Len(translated.messages) - 1) :
              ~(translated.messages[i].role = "tool"
                    /\ translated.messages[i + 1].role = "tool")
        /\ [i \in 1..Len(out) |-> out[i].id] = toolIdsIn
        /\ \A k \in 1..(Len(items) - 1) :
              (items[k].role = "tool" /\ items[k + 1].role = "tool")
                  => out[toolRank(k)].at = out[toolRank(k + 1)].at

\* The two results of an assistant turn with two calls came as two tool
\* messages and are one tool message of the output.
C32_Witness ==
    /\ items = <<ChatMessage("user", "hi", <<>>, ""),
                 ChatMessage("assistant", "", <<"A", "B">>, ""),
                 ChatMessage("tool", "", <<>>, "A"), ChatMessage("tool", "", <<>>, "B")>>
    /\ translated # NoOutput
    /\ Len(translated.messages) = 3
    /\ translated.messages[3] =
          Message("tool", <<ToolResultPart("A", "A"), ToolResultPart("B", "B")>>)

(***************************************************************************)
(* The configuration watcher (src/src/config-watcher.ts) on config.json:   *)
(* the file and the generation of its inode, the file observer and the     *)
(* directory observer with the callbacks they have queued, the debounce    *)
(* timer, the reloads in flight, the cache and the subscriber's copy.      *)
(* A configuration is a number; 0 is DEFAULT_CONFIG.                       *)
(***************************************************************************)
MaxConfigs == 1
MaxFsOps == 2
MaxWatchTicks == 4

DEBOUNCE_DELAY == 100
\* The amounts by which the watcher's clock advances.
WatchSteps == {50, 100}
Configs == 0..MaxConfigs
DEFAULT_CONFIG == 0
\* timerRef.current is null.
NoTimer == -1

debounce_KeepTimer(w) ==
    [w EXCEPT !.timer = IF w.timer = NoTimer THEN w.clock + DEBOUNCE_DELAY ELSE @,
              !.bursts = IF w.lastEvent = -1 \/ w.clock - w.lastEvent >= DEBOUNCE_DELAY
                         THEN @ + 1 ELSE @,
              !.lastEvent = w.clock]

\* debounce: an event clears the pending timer and sets a new one.  An event
\* that comes DEBOUNCE_DELAY or more after the one before it starts a burst.
debounce(w) ==
    [w EXCEPT !.timer = w.clock + DEBOUNCE_DELAY,
              !.bursts = IF w.lastEvent = -1 \/ w.clock - w.lastEvent >= DEBOUNCE_DELAY
                         THEN @ + 1 ELSE @,
              !.lastEvent = w.clock]

\* A due timer runs before the callback of a later event.
timerDue == watch.timer # NoTimer /\ watch.clock >= watch.timer

\* Somebody writes config.json: the observer of this inode and the observer
\* of the directory each queue a callback.
FsWrite(v) ==
    /\ watch.pc = "running" /\ watch.ops < MaxFsOps /\ watch.exists
    /\ watch' = [watch EXCEPT !.ops = @ + 1, !.content = v,
                    !.fileEvents = IF watch.configWatcher = watch.gen THEN @ + 1 ELSE @,
                    !.dirEvents = @ + 1]

\* Somebody deletes config.json: the file observer reports "rename", which
\* its callback ignores; the directory observer queues a callback.
FsDelete ==
    /\ watch.pc = "running" /\ watch.ops < MaxFsOps /\ watch.exists
    /\ watch' = [watch EXCEPT !.ops = @ + 1, !.exists = FALSE, !.dirEvents = @ + 1]

\* Somebody creates config.json anew: a new inode.
FsCreate(v) ==
    /\ watch.pc = "running" /\ watch.ops < MaxFsOps /\ ~watch.exists
    /\ watch' = [watch EXCEPT !.ops = @ + 1, !.exists = TRUE, !.gen = @ + 1,
                              !.content = v, !.dirEvents = @ + 1]

\* The callback of the file observer, for a "change" event.
FileCallback ==
    /\ watch.pc = "running" /\ watch.fileEvents > 0 /\ ~timerDue
    /\ watch' = debounce([watch EXCEPT !.fileEvents = @ - 1])

\* The callback of the directory observer, for filename config.json: a file
\* without observer gets one, the observer of a missing file is closed.
DirCallback ==
    /\ watch.pc = "running" /\ watch.dirEvents > 0 /\ ~timerDue
    /\ watch' = debounce(
          [watch EXCEPT
              !.dirEvents = @ - 1,
              !.configWatcher = IF watch.exists
                                THEN IF @ = 0 THEN watch.gen ELSE @
                                ELSE 0,
              !.fileEvents = IF ~watch.exists THEN 0 ELSE @])

\* Time passes, but not beyond a timer's deadline by more than a step.
WatchTick ==
    /\ watch.pc = "running" /\ watch.ticks < MaxWatchTicks /\ ~timerDue
    /\ \E d \in WatchSteps :
          watch' = [watch EXCEPT !.clock = @ + d, !.ticks = @ + 1]

\* The timer fires: handleConfigChange calls loadConfig, which reads the
\* file, or, when there is none, writes the default configuration.
TimerFire ==
    /\ watch.pc = "running" /\ timerDue
    /\ watch' = [watch EXCEPT
          !.timer = NoTimer,
          !.reloads = @ + 1,
          !.inflight = Append(@, IF watch.exists THEN watch.content ELSE DEFAULT_CONFIG),
          !.exists = TRUE,
          !.gen = IF watch.exists THEN @ ELSE @ + 1,
          !.content = IF watch.exists THEN @ ELSE DEFAULT_CONFIG,
          !.dirEvents = IF watch.exists THEN @ ELSE @ + 1]

\* loadConfig of the i-th reload in flight returns: handleConfigChange
\* compares with the cache and, when they differ, sets it and calls the
\* subscriber.
ReloadDone(i) ==
    /\ watch.pc = "running" /\ i \in 1..Len(watch.inflight)
    /\ LET newConfig == watch.inflight[i]
           rest == SubSeq(watch.inflight, 1, i - 1)
                       \o SubSeq(watch.inflight, i + 1, Len(watch.inflight))
       IN  watch' = IF newConfig # watch.currentConfig
                    THEN [watch EXCEPT !.inflight = rest, !.currentConfig = newConfig,
                                       !.modelMapping = newConfig, !.pushes = @ + 1]
                    ELSE [watch EXCEPT !.inflight = rest]

WatchNext ==
    \/ \E v \in Configs : FsWrite(v) /\ UNCHANGED notWatch
    \/ FsDelete /\ UNCHANGED notWatch
    \/ \E v \in Configs : FsCreate(v) /\ UNCHANGED notWatch
    \/ FileCallback /\ UNCHANGED notWatch
    \/ DirCallback /\ UNCHANGED notWatch
    \/ WatchTick /\ UNCHANGED notWatch
    \/ TimerFire /\ UNCHANGED notWatch
    \/ \E i \in 1..Len(watch.inflight) : ReloadDone(i) /\ UNCHANGED notWatch

\* startServer: startConfigWatcher has loaded the configuration (which
\* creates a missing file) and attached both observers; onConfigChange has
\* called the subscriber with the cache.
WatcherInit ==
    /\ SMInit
    /\ h = [r \in Reqs |-> IdleH]
    /\ UpIdle
    /\ TrIdle
    /\ DecIdle
    /\ RwIdle
    /\ RelayIdle
    /\ KeyIdle
    /\ SkIdle
    /\ \E v \in Configs :
          watch = [pc |-> "running", clock |-> 0, ticks |-> 0, ops |-> 0,
                   exists |-> TRUE, gen |-> 1, content |-> v, configWatcher |-> 1,
                   fileEvents |-> 0, dirEvents |-> 0, timer |-> NoTimer,
                   inflight |-> <<>>, currentConfig |-> v, modelMapping |-> v,
                   pushes |-> 0, lastEvent |-> -1, bursts |-> 0, reloads |-> 0]

WatcherSpec == WatcherInit /\ [][WatchNext]_vars

\* C33: each burst of events has one reload, which starts when
\* DEBOUNCE_DELAY has passed since the last event of the burst.
C33_OneReloadPerBurst ==
    /\ [](watch.reloads = watch.bursts - (IF watch.timer # NoTimer THEN 1 ELSE 0))
    /\ [][watch'.reloads # watch.reloads =>
             watch.clock - watch.lastEvent >= DEBOUNCE_DELAY]_vars

\* A burst of three events, 50 ms apart, has had its one reload.
C33_Witness ==
    /\ watch.bursts = 1 /\ watch.reloads = 1 /\ watch.ops = 2
    /\ watch.fileEvents = 0 /\ watch.dirEvents = 0
    /\ watch.lastEvent = 100 /\ watch.clock = 200

\* No callback of an observer is queued.
eventsDone == watch.fileEvents = 0 /\ watch.dirEvents = 0

\* C34: once config.json exists again and the callbacks of the deletions and
\* creations have run, the file observer is attached to the current file.
C34_ObserverOnCurrentFile ==
    (eventsDone /\ watch.exists) => watch.configWatcher = watch.gen

\* No callback is queued, no timer is pending and no reload is in flight.
quiet == eventsDone /\ watch.timer = NoTimer /\ watch.inflight = <<>>

\* C35: when the events have stopped and the reloads are done, the cache and
\* the subscriber's copy equal the content of the file; the subscriber is
\* called only with a value that differs from the cached one.
C35_CacheFollowsFile ==
    /\ [](quiet => /\ watch.exists
                   /\ watch.currentConfig = watch.content
                   /\ watch.modelMapping = watch.content)
    /\ [][watch'.pushes # watch.pushes =>
             /\ watch'.currentConfig # watch.currentConfig
             /\ watch'.modelMapping = watch'.currentConfig]_vars

\* The positions in the stream of the events that announce an output item.
itemsAdded == positionsOf("response.output_item.added")

\* The index in output[] (from 0) of the item announced at position k of the
\* stream: the message is the item of type message, the n-th announced
\* function_call the n-th item of type function_call.
placeInOutput(output, k) ==
    LET n == Cardinality({j \in itemsAdded : j <= k /\ rw.out[j].item = rw.out[k].item})
        same == {i \in 1..Len(output) : output[i] = rw.out[k].item}
        at == CHOOSE i \in same : Cardinality({j \in same : j <= i}) = n
    IN  at - 1

\* C39: in a Responses stream no two output items announced before
\* response.completed have the same output_index, and each is announced with
\* its index in the output[] of response.completed.
C39_OutputIndexIsPlaceInOutput ==
    \A c \in positionsOf("response.completed") :
        LET before == {k \in itemsAdded : k < c} IN
        /\ \A j, k \in before : j # k => rw.out[j].output_index # rw.out[k].output_index
        /\ \A k \in before : rw.out[k].output_index = placeInOutput(rw.out[c].item, k)

====
